---------------------------- MODULE Spec2Model ----------------------------
(***************************************************************************)
(* A model of the E Minor reference compiler eminorcc (the C++17 program   *)
(* kept in src/EmitHexToIr.sh):                                            *)
(*   token stream -> Parser -> StarCode -> Emitter -> link -> peephole     *)
(*   -> output files.                                                      *)
(* The pipeline is a state machine whose input is the token stream that    *)
(* Lexer::next hands to the parser; every stage is an operator translated  *)
(* from the corresponding C++ function and applied by one action.          *)
(***************************************************************************)
EXTENDS Integers, Sequences, FiniteSets, TLC

VARIABLES
    lx,              \* Parser::lx, the Lexer [src, i, line, col]
    cmd,             \* main: cmd, the parsed command line [wantDisasm]
    toks,            \* the tokens Lexer::next delivers, in order (Parser::lx)
    pc,              \* position of main()
    ast,             \* main: ast, the Program node
    thrown,          \* the exception on its way to the catch of main
    diags,           \* StarCode::diags
    di,              \* index of the diagnostic loop of main
    errOut,          \* lines written to cerr
    text,            \* Emitter::text
    rodata,          \* Emitter::rodata
    relocs,          \* Emitter::relocs
    labels,          \* Emitter::labels
    sym_func_start,  \* Emitter::sym_func_start
    ri,              \* index of the relocation loop of Emitter::build
    patched,         \* fixup positions written by the relocation loop, in order
    build,           \* main: build, the BuildResult [text, rodata, syms]
    files,           \* output files written so far, in order
    exitCode         \* value returned by main (-1 while running)

vars == <<lx, cmd, toks, pc, ast, thrown, diags, di, errOut, text, rodata, relocs,
          labels, sym_func_start, ri, patched, build, files, exitCode>>

-----------------------------------------------------------------------------
(* Bounds of the model                                                     *)

MaxStmts == 2        \* statements in the entry block of an input program

-----------------------------------------------------------------------------
(* Fixed-width integers.  uint8_t is 0..255; uint32_t, long long and        *)
(* unsigned long long values are little-endian byte sequences of length 4  *)
(* and 8 (the layout u32le writes), so that no value leaves the range of   *)
(* the model checker's integers.                                           *)

Byte == 0..255

Z4 == <<0, 0, 0, 0>>
Z8 == <<0, 0, 0, 0, 0, 0, 0, 0>>

\* u32le(v) for an offset or small constant v < 2^31
u32le(v) == <<v % 256, (v \div 256) % 256, (v \div 65536) % 256,
             (v \div 16777216) % 256>>

\* a 64-bit value v < 2^31
U64(v) == u32le(v) \o Z4

\* (uint32_t)v of a 64-bit value: its low four bytes
Lo32(v) == SubSeq(v, 1, 4)

\* the number a byte sequence stands for, when that is below 2^31
ToNat(bs) == bs[1] + 256 * bs[2] + 65536 * bs[3] + 16777216 * bs[4]

RECURSIVE GtLE(_, _, _)
\* a > b for two little-endian values of the same length, from byte j down
GtLE(a, b, j) ==
    IF j = 0 THEN FALSE
    ELSE IF a[j] # b[j] THEN a[j] > b[j]
    ELSE GtLE(a, b, j - 1)

-----------------------------------------------------------------------------
(* Tokens (struct Token).  A token sequence stands for one source line;    *)
(* col is the token's ordinal, so distinct tokens have distinct positions. *)

Tk(kind, lex) ==
    [kind |-> kind, lex |-> lex, line |-> 1, col |-> 0,
     ival |-> Z8, bval |-> FALSE, du_ns |-> Z8]

TkNum(lex, v)  == [Tk("Number", lex) EXCEPT !.ival = v]
TkDur(lex, ns) == [Tk("Duration", lex) EXCEPT !.du_ns = ns]
TkBool(lex, b) == [Tk("Bool", lex) EXCEPT !.bval = b]

WithPos(ts) == [i \in 1..Len(ts) |-> [ts[i] EXCEPT !.col = i]]

\* Lexer::next at the end of the source: an End token, again and again
EndTok(ts) == [Tk("End", "") EXCEPT !.col = Len(ts) + 1]

\* Parser::t after i-1 calls of adv() following the constructor's
Tok(ts, i) == IF i <= Len(ts) THEN ts[i] ELSE EndTok(ts)

Is(ts, i, k) == Tok(ts, i).kind = k

-----------------------------------------------------------------------------
(* Syntax tree (struct Node)                                               *)

N(k, L, C) ==
    [k |-> k, line |-> L, col |-> C, s1 |-> "", s2 |-> "",
     i64 |-> Z8, du_ns |-> Z8, b |-> FALSE, xs |-> <<>>]

\* N(k, t.line, t.col) with t the token at index i
NAt(ts, i, k) == N(k, Tok(ts, i).line, Tok(ts, i).col)

-----------------------------------------------------------------------------
(* Parser.  A parse function takes the token index of Parser::t and gives  *)
(* either Ok(node, index of Parser::t afterwards) or the thrown error.     *)

Ok(n, i) == [ok |-> TRUE, n |-> n, i |-> i]

\* sequencing of parse steps: an error thrown by the first step propagates,
\* otherwise the rest K goes on from its result
Then(r, K(_)) == IF r.ok THEN K(r) ELSE r

\* Parser::perr with t the token at index i.  adv() throws perr(t.lex) as
\* soon as t is an Error token, so an error raised at an Error token is that
\* lexical error.
perr(ts, i, msg) ==
    [ok |-> FALSE,
     msg |-> IF Is(ts, i, "Error") THEN Tok(ts, i).lex ELSE msg,
     line |-> Tok(ts, i).line, col |-> Tok(ts, i).col, tok |-> Tok(ts, i).lex]

\* expect(k, what) at index i, then the rest K
Expect(ts, i, k, what, K) == IF Is(ts, i, k) THEN K ELSE perr(ts, i, what)

\* Parser::prec
prec(ts, i) ==
    LET k == Tok(ts, i).kind IN
    CASE k = "OrOr" -> 1
      [] k = "AndAnd" -> 2
      [] k \in {"Eq", "Ne"} -> 3
      [] k \in {"Lt", "Gt", "Le", "Ge"} -> 4
      [] k \in {"Plus", "Minus"} -> 5
      [] k \in {"Star", "Slash", "Percent"} -> 6
      [] OTHER -> 0

RECURSIVE parseUnary(_, _), parsePrimary(_, _), parseBin(_, _, _, _),
          parseArgs(_, _, _)

\* Parser::parseExpr
parseExpr(ts, i) ==
    Then(parseUnary(ts, i), LAMBDA u : parseBin(ts, u.i, 0, u.n))

\* the argument loops of parsePrimary, parseSpawn and Print:
\* push_back(parseExpr()); while (eat(Comma)) push_back(parseExpr());
parseArgs(ts, i, acc) ==
    Then(parseExpr(ts, i), LAMBDA e :
        IF Is(ts, e.i, "Comma") THEN parseArgs(ts, e.i + 1, Append(acc, e.n))
        ELSE [ok |-> TRUE, ns |-> Append(acc, e.n), i |-> e.i])

\* Parser::parseUnary
parseUnary(ts, i) ==
    IF Tok(ts, i).kind \in {"Bang", "Minus", "Tilde"}
    THEN Then(parseUnary(ts, i + 1), LAMBDA rhs :
             Ok([NAt(ts, i, "Un") EXCEPT !.s1 = Tok(ts, i).lex,
                                         !.xs = <<rhs.n>>], rhs.i))
    ELSE parsePrimary(ts, i)

\* Parser::parsePrimary
parsePrimary(ts, i) ==
    LET t == Tok(ts, i) IN
    CASE t.kind = "Number" ->
           Ok([NAt(ts, i, "ConstI") EXCEPT !.i64 = t.ival], i + 1)
      [] t.kind = "String" ->
           Ok([NAt(ts, i, "ConstStr") EXCEPT !.s1 = t.lex], i + 1)
      [] t.kind = "Bool" ->
           Ok([NAt(ts, i, "ConstBool") EXCEPT !.b = t.bval], i + 1)
      [] t.kind = "Ident" ->
           IF Is(ts, i + 1, "LParen")
           THEN IF Is(ts, i + 2, "RParen")
                THEN Ok([NAt(ts, i + 3, "CallExpr") EXCEPT !.s1 = t.lex], i + 3)
                ELSE Then(parseArgs(ts, i + 2, <<>>), LAMBDA as :
                         Expect(ts, as.i, "RParen", "expected )",
                                Ok([NAt(ts, as.i + 1, "CallExpr")
                                      EXCEPT !.s1 = t.lex, !.xs = as.ns],
                                   as.i + 1)))
           ELSE Ok([NAt(ts, i + 1, "Var") EXCEPT !.s1 = t.lex], i + 1)
      [] t.kind = "LParen" ->
           Then(parseExpr(ts, i + 1), LAMBDA e :
               Expect(ts, e.i, "RParen", "expected )", Ok(e.n, e.i + 1)))
      [] OTHER -> perr(ts, i, "unexpected expression")

\* Parser::parseBin: the for(;;) loop, one iteration per unfolding
parseBin(ts, i, minPrec, lhs) ==
    IF prec(ts, i) < minPrec THEN Ok(lhs, i)
    ELSE IF Is(ts, i, "Error") THEN perr(ts, i, "")
    ELSE Then(parseUnary(ts, i + 1), LAMBDA rhs :
             Then(IF prec(ts, i) < prec(ts, rhs.i)
                  THEN parseBin(ts, rhs.i, prec(ts, i) + 1, rhs.n)
                  ELSE rhs,
                  LAMBDA rhs2 :
                      parseBin(ts, rhs2.i, minPrec,
                               [NAt(ts, i, "Bin")
                                  EXCEPT !.s1 = Tok(ts, i).lex,
                                         !.xs = <<lhs, rhs2.n>>])))

\* Parser::parseOp1 (the longForm flag is not used by the code)
parseOp1(ts, i, kind) ==
    Expect(ts, i + 1, "Ident", "expected $capsule",
           Ok([NAt(ts, i, kind) EXCEPT !.s1 = Tok(ts, i + 1).lex], i + 2))

\* Parser::parseOp2
parseOp2(ts, i, kind) ==
    Expect(ts, i + 1, "Ident", "expected first capsule",
    Expect(ts, i + 2, "Comma", "expected ,",
    Expect(ts, i + 3, "Ident", "expected second capsule",
           Ok([NAt(ts, i, kind) EXCEPT !.s1 = Tok(ts, i + 1).lex,
                                       !.s2 = Tok(ts, i + 3).lex], i + 4))))

\* Parser::parseLoad
parseLoad(ts, i) ==
    Expect(ts, i + 1, "Ident", "expected $capsule",
    Expect(ts, i + 2, "Comma", "expected ,",
           Then(parseExpr(ts, i + 3), LAMBDA val :
               Ok([NAt(ts, i, "Load") EXCEPT !.s1 = Tok(ts, i + 1).lex,
                                             !.xs = <<val.n>>], val.i))))

\* Parser::parseCall
parseCall(ts, i) ==
    Expect(ts, i + 1, "Ident", "expected function name",
    Expect(ts, i + 2, "Comma", "expected ,",
           Then(parseExpr(ts, i + 3), LAMBDA arg :
               Ok([NAt(ts, i, "Call") EXCEPT !.s1 = Tok(ts, i + 1).lex,
                                             !.xs = <<arg.n>>], arg.i))))

\* Parser::parseSpawn
parseSpawn(ts, i) ==
    Expect(ts, i + 1, "Ident", "expected worker name",
           IF Is(ts, i + 2, "Comma")
           THEN Then(parseArgs(ts, i + 3, <<>>), LAMBDA as :
                    Ok([NAt(ts, i, "Spawn") EXCEPT !.s1 = Tok(ts, i + 1).lex,
                                                   !.xs = as.ns], as.i))
           ELSE Ok([NAt(ts, i, "Spawn") EXCEPT !.s1 = Tok(ts, i + 1).lex],
                   i + 2))

\* Parser::parseStamp
parseStamp(ts, i) ==
    Expect(ts, i + 1, "Ident", "expected $capsule",
    Expect(ts, i + 2, "Comma", "expected ,",
           IF Is(ts, i + 3, "Bool")
           THEN Ok([NAt(ts, i, "Stamp") EXCEPT !.s1 = Tok(ts, i + 1).lex,
                                               !.b = Tok(ts, i + 3).bval], i + 4)
           ELSE Expect(ts, i + 3, "Number", "expected bool or number stamp",
                       Ok([NAt(ts, i, "Stamp")
                             EXCEPT !.s1 = Tok(ts, i + 1).lex,
                                    !.i64 = Tok(ts, i + 3).ival], i + 4))))

\* Parser::parseExpire
parseExpire(ts, i) ==
    Expect(ts, i + 1, "Ident", "expected $capsule",
    Expect(ts, i + 2, "Comma", "expected ,",
    Expect(ts, i + 3, "Duration", "expected duration literal (e.g., 5ms)",
           Ok([NAt(ts, i, "Expire") EXCEPT !.s1 = Tok(ts, i + 1).lex,
                                           !.du_ns = Tok(ts, i + 3).du_ns],
              i + 4))))

\* Parser::parseSleep
parseSleep(ts, i) ==
    Expect(ts, i + 1, "Duration", "expected duration",
           Ok([NAt(ts, i, "Sleep") EXCEPT !.du_ns = Tok(ts, i + 1).du_ns], i + 2))

\* Parser::parseError
parseError(ts, i) ==
    Expect(ts, i + 1, "Ident", "expected $capsule",
    Expect(ts, i + 2, "Comma", "expected ,",
    Expect(ts, i + 3, "Number", "expected code",
    Expect(ts, i + 4, "Comma", "expected ,",
    Expect(ts, i + 5, "String", "expected message",
           Ok([NAt(ts, i, "Error") EXCEPT !.s1 = Tok(ts, i + 1).lex,
                                          !.i64 = Tok(ts, i + 3).ival,
                                          !.s2 = Tok(ts, i + 5).lex], i + 6))))))

RECURSIVE readType(_, _)
\* Parser::readType; the result is [ok, s, i] with s the type string
readType(ts, i) ==
    Expect(ts, i, "Ident", "expected type ident",
        Then(IF Is(ts, i + 1, "Lt")
             THEN Then(readType(ts, i + 2), LAMBDA inner :
                      Expect(ts, inner.i, "Gt", "expected >",
                             [ok |-> TRUE,
                              s |-> Tok(ts, i).lex \o "<" \o inner.s \o ">",
                              i |-> inner.i + 1]))
             ELSE [ok |-> TRUE, s |-> Tok(ts, i).lex, i |-> i + 1],
             LAMBDA gen :
                 IF Is(ts, gen.i, "LBracket")
                 THEN Expect(ts, gen.i + 1, "Number", "expected array size",
                      Expect(ts, gen.i + 2, "RBracket", "expected ]",
                             [ok |-> TRUE,
                              s |-> gen.s \o "["
                                      \o ToString(ToNat(Tok(ts, gen.i + 1).ival))
                                      \o "]",
                              i |-> gen.i + 3]))
                 ELSE gen))

\* Parser::parseLet
parseLet(ts, i) ==
    Expect(ts, i + 1, "Ident", "expected $name",
    Expect(ts, i + 2, "Colon", "expected :",
        Then(readType(ts, i + 3), LAMBDA typ :
            IF Is(ts, typ.i, "Assign")
            THEN Then(parseExpr(ts, typ.i + 1), LAMBDA init :
                     Expect(ts, init.i, "Semi", "expected ;",
                            Ok([NAt(ts, i, "Let")
                                  EXCEPT !.s1 = Tok(ts, i + 1).lex,
                                         !.s2 = typ.s, !.xs = <<init.n>>],
                               init.i + 1)))
            ELSE Expect(ts, typ.i, "Semi", "expected ;",
                        Ok([NAt(ts, i, "Let")
                              EXCEPT !.s1 = Tok(ts, i + 1).lex, !.s2 = typ.s],
                           typ.i + 1)))))

RECURSIVE parseStmt(_, _), parseBlock(_, _), parseStmts(_, _, _)

\* the loop of parseBlock: while (!is(RBrace)) push_back(parseStmt()); adv();
parseStmts(ts, i, acc) ==
    IF Is(ts, i, "RBrace") THEN [ok |-> TRUE, ns |-> acc, i |-> i + 1]
    ELSE Then(parseStmt(ts, i), LAMBDA s :
             parseStmts(ts, s.i, Append(acc, s.n)))

\* Parser::parseBlock; the node takes the position of the token after '{'
parseBlock(ts, i) ==
    Expect(ts, i, "LBrace", "expected {",
           Then(parseStmts(ts, i + 1, <<>>), LAMBDA r :
               Ok([NAt(ts, i + 1, "Block") EXCEPT !.xs = r.ns], r.i)))

\* the common part of parseIfHash, parseIfLong, parseLoopHash, parseLoopLong:
\* adv(); expect(LParen); cond = parseExpr(); expect(RParen); parseBlock()
parseCondBlock(ts, i) ==
    Expect(ts, i + 1, "LParen", "expected (",
        Then(parseExpr(ts, i + 2), LAMBDA cond :
            Expect(ts, cond.i, "RParen", "expected )",
                Then(parseBlock(ts, cond.i + 1), LAMBDA blk :
                    [ok |-> TRUE, ns |-> <<cond.n, blk.n>>, i |-> blk.i]))))

\* Parser::parseIfHash
parseIfHash(ts, i) ==
    Then(parseCondBlock(ts, i), LAMBDA h :
        IF Is(ts, h.i, "HashElse")
        THEN Then(parseBlock(ts, h.i + 1), LAMBDA el :
                 Expect(ts, el.i, "HashEndIf", "expected #endif",
                        Ok([NAt(ts, i, "If") EXCEPT !.xs = Append(h.ns, el.n)],
                           el.i + 1)))
        ELSE Expect(ts, h.i, "HashEndIf", "expected #endif",
                    Ok([NAt(ts, i, "If") EXCEPT !.xs = h.ns], h.i + 1)))

\* Parser::parseIfLong
parseIfLong(ts, i) ==
    Then(parseCondBlock(ts, i), LAMBDA h :
        IF Is(ts, h.i, "Else")
        THEN Then(parseBlock(ts, h.i + 1), LAMBDA el :
                 Ok([NAt(ts, i, "If") EXCEPT !.xs = Append(h.ns, el.n)], el.i))
        ELSE Ok([NAt(ts, i, "If") EXCEPT !.xs = h.ns], h.i))

\* Parser::parseLoopHash
parseLoopHash(ts, i) ==
    Then(parseCondBlock(ts, i), LAMBDA h :
        Ok([NAt(ts, i, "Loop") EXCEPT !.xs = h.ns], h.i))

\* Parser::parseLoopLong
parseLoopLong(ts, i) ==
    Then(parseCondBlock(ts, i), LAMBDA h :
        Ok([NAt(ts, i, "Loop") EXCEPT !.xs = h.ns], h.i))

\* Parser::parseStmt
parseStmt(ts, i) ==
    LET k == Tok(ts, i).kind IN
    CASE k = "Label" ->
           Ok([NAt(ts, i, "Label") EXCEPT !.s1 = Tok(ts, i).lex], i + 1)
      [] k = "Goto" ->
           Expect(ts, i + 1, "Label", "expected :label",
           Expect(ts, i + 2, "Semi", "expected ;",
                  Ok([NAt(ts, i, "Goto") EXCEPT !.s1 = Tok(ts, i + 1).lex],
                     i + 3)))
      [] k = "HashInit"     -> parseOp1(ts, i, "Init")
      [] k = "HashLease"    -> parseOp1(ts, i, "Lease")
      [] k = "HashSublease" -> parseOp1(ts, i, "Sublease")
      [] k = "HashRelease"  -> parseOp1(ts, i, "Release")
      [] k = "HashLoad"     -> parseLoad(ts, i)
      [] k = "HashCall"     -> parseCall(ts, i)
      [] k = "HashExit"     -> Ok(NAt(ts, i, "Exit"), i + 1)
      [] k = "HashRender"   -> parseOp1(ts, i, "Render")
      [] k = "HashInput"    -> parseOp1(ts, i, "Input")
      [] k = "HashOutput"   -> parseOp1(ts, i, "Output")
      [] k = "HashSend"     -> parseOp2(ts, i, "Send")
      [] k = "HashRecv"     -> parseOp2(ts, i, "Recv")
      [] k = "HashSpawn"    -> parseSpawn(ts, i)
      [] k = "HashJoin"     -> parseOp1(ts, i, "Join")
      [] k = "HashStamp"    -> parseStamp(ts, i)
      [] k = "HashExpire"   -> parseExpire(ts, i)
      [] k = "HashSleep"    -> parseSleep(ts, i)
      [] k = "HashYield"    -> Ok(NAt(ts, i, "Yield"), i + 1)
      [] k = "HashError"    -> parseError(ts, i)
      [] k = "HashIf"       -> parseIfHash(ts, i)
      [] k = "HashLoop"     -> parseLoopHash(ts, i)
      [] k = "If"           -> parseIfLong(ts, i)
      [] k = "Loop"         -> parseLoopLong(ts, i)
      [] k = "Let"          -> parseLet(ts, i)
      [] k = "Return" ->
           IF Is(ts, i + 1, "Semi") THEN Ok(NAt(ts, i, "Return"), i + 2)
           ELSE Then(parseExpr(ts, i + 1), LAMBDA e :
                    Expect(ts, e.i, "Semi", "expected ;",
                           Ok([NAt(ts, i, "Return") EXCEPT !.xs = <<e.n>>],
                              e.i + 1)))
      [] k = "Print" ->
           Then(parseArgs(ts, i + 1, <<>>), LAMBDA vs :
               Expect(ts, vs.i, "Semi", "expected ;",
                      Ok([NAt(ts, i, "Print") EXCEPT !.xs = vs.ns], vs.i + 1)))
      \* long-form synonyms
      [] k = "Initialize" -> parseOp1(ts, i, "Init")
      [] k = "AssignValue" ->
           IF ~(Is(ts, i + 1, "Ident") /\ Tok(ts, i + 1).lex = "value")
           THEN perr(ts, i + 1, "expected 'value'")
           ELSE Then(parseExpr(ts, i + 2), LAMBDA val :
                    IF ~(Is(ts, val.i, "Ident") /\ Tok(ts, val.i).lex = "to")
                    THEN perr(ts, val.i, "expected 'to'")
                    ELSE Expect(ts, val.i + 1, "Ident", "expected capsule name",
                                Ok([NAt(ts, i, "Load")
                                      EXCEPT !.s1 = Tok(ts, val.i + 1).lex,
                                             !.xs = <<val.n>>], val.i + 2)))
      [] k = "InvokeFunction" ->
           IF ~(Is(ts, i + 1, "Ident") /\ Tok(ts, i + 1).lex = "function")
           THEN perr(ts, i + 1, "expected 'function'")
           ELSE Expect(ts, i + 2, "Ident", "expected function name",
                IF ~(Is(ts, i + 3, "Ident") /\ Tok(ts, i + 3).lex = "with")
                THEN perr(ts, i + 3, "expected 'with'")
                ELSE Then(parseExpr(ts, i + 4), LAMBDA arg :
                         Ok([NAt(ts, arg.i, "Call")
                               EXCEPT !.s1 = Tok(ts, i + 2).lex,
                                      !.xs = <<arg.n>>], arg.i)))
      [] k = "TerminateExecution" -> Ok(NAt(ts, i, "Exit"), i + 1)
      [] k = "LBrace" -> parseBlock(ts, i)
      [] OTHER ->
           Then(parseExpr(ts, i), LAMBDA e :
               Expect(ts, e.i, "Semi", "expected ;", Ok(e.n, e.i + 1)))

\* Parser::parseEntry
parseEntry(ts, i) ==
    Then(parseBlock(ts, i + 1), LAMBDA b :
        Ok([b.n EXCEPT !.s1 = IF Is(ts, i, "AtMain") THEN "@main"
                                                     ELSE "@entry_point"], b.i))

\* Parser::parseModule: every path ends in perr
parseModule(ts, i) ==
    Expect(ts, i + 1, "String", "expected \"path\"",
           perr(ts, i + 2, "internal: module path capture not implemented"))

\* Parser::parseImport
parseImport(ts, i) ==
    Expect(ts, i + 1, "String", "expected string path after @import",
           IF Is(ts, i + 2, "Ident") /\ Tok(ts, i + 2).lex = "as"
           THEN Expect(ts, i + 3, "Ident", "expected alias ident",
                       Ok([NAt(ts, i, "Import")
                             EXCEPT !.s1 = Tok(ts, i + 1).lex,
                                    !.s2 = Tok(ts, i + 3).lex], i + 4))
           ELSE Ok([NAt(ts, i, "Import") EXCEPT !.s1 = Tok(ts, i + 1).lex],
                   i + 2))

\* Parser::parseExport
parseExport(ts, i) ==
    Expect(ts, i + 1, "Ident", "expected exported symbol like $name",
           Ok([NAt(ts, i, "Export") EXCEPT !.s1 = Tok(ts, i + 1).lex], i + 2))

RECURSIVE parseParams(_, _, _, _)
\* the parameter loop of parseFunc; f is the index of the function keyword
parseParams(ts, i, f, acc) ==
    Expect(ts, i, "Ident", "expected param name",
        Then(IF Is(ts, i + 1, "Colon") THEN readType(ts, i + 2)
             ELSE [ok |-> TRUE, s |-> "", i |-> i + 1],
             LAMBDA typ :
                 IF Is(ts, typ.i, "Comma")
                 THEN parseParams(ts, typ.i + 1, f,
                                  Append(acc, [NAt(ts, f, "Param")
                                                 EXCEPT !.s1 = Tok(ts, i).lex,
                                                        !.s2 = typ.s]))
                 ELSE [ok |-> TRUE,
                       ns |-> Append(acc, [NAt(ts, f, "Param")
                                             EXCEPT !.s1 = Tok(ts, i).lex,
                                                    !.s2 = typ.s]),
                       i |-> typ.i]))

\* Parser::parseFunc
parseFunc(ts, i, kind) ==
    Expect(ts, i + 1, "Ident", "expected $name",
    Expect(ts, i + 2, "LParen", "expected (",
        Then(IF Is(ts, i + 3, "RParen")
             THEN [ok |-> TRUE, ns |-> <<>>, i |-> i + 3]
             ELSE parseParams(ts, i + 3, i, <<>>),
             LAMBDA params :
        Expect(ts, params.i, "RParen", "expected )",
        Then(IF Is(ts, params.i + 1, "Colon")
             THEN readType(ts, params.i + 2)
             ELSE [ok |-> TRUE, s |-> "", i |-> params.i + 1],
             LAMBDA ret :
        Then(parseBlock(ts, ret.i), LAMBDA body :
            Ok([NAt(ts, i, kind)
                  EXCEPT !.s1 = Tok(ts, i + 1).lex, !.s2 = ret.s,
                         !.xs = Append(params.ns, body.n)], body.i)))))))

\* one turn of the loop of Parser::parse: the top-level item at index i
parseItem(ts, i) ==
    LET k == Tok(ts, i).kind IN
    CASE k \in {"AtMain", "AtEntryPoint"} -> parseEntry(ts, i)
      [] k = "Module"   -> parseModule(ts, i)
      [] k = "Import"   -> parseImport(ts, i)
      [] k = "Export"   -> parseExport(ts, i)
      [] k = "Function" -> parseFunc(ts, i, "Func")
      [] k = "Worker"   -> parseFunc(ts, i, "Worker")
      [] k = "Let"      -> parseLet(ts, i)
      [] OTHER -> perr(ts, i, "unexpected top-level construct")

RECURSIVE parseItems(_, _, _)
\* the loop of Parser::parse: while (!is(End)) { ... }
parseItems(ts, i, acc) ==
    IF Is(ts, i, "End") THEN Ok([N("Program", 0, 0) EXCEPT !.xs = acc], i)
    ELSE Then(parseItem(ts, i), LAMBDA r :
             parseItems(ts, r.i, Append(acc, r.n)))

\* Parser::parse on the token stream ts
parse(ts) == parseItems(ts, 1, <<>>)

-----------------------------------------------------------------------------
(* Star-Code validation (struct StarCode)                                  *)

\* StarCode::warn, StarCode::err: the Diagnostic pushed onto diags
warn(L, C, m) == [kind |-> "warning", msg |-> m, line |-> L, col |-> C]
err(L, C, m)  == [kind |-> "error", msg |-> m, line |-> L, col |-> C]

\* (unsigned long long)9e18 = 0x7CE66C50E2840000
DurLimit == <<0, 0, 132, 226, 80, 108, 230, 124>>

\* what a stretch of the walk adds to labels, gotos and diags, and two
\* stretches one after the other
Found(labs, gs, ds) == [labels |-> labs, gotos |-> gs, diags |-> ds]
After(f, g) ==
    Found(f.labels \cup g.labels, f.gotos \o g.gotos, f.diags \o g.diags)

RECURSIVE walk(_), walkAll(_)
\* the lambda walk of StarCode::run: what the walk of n adds
walk(n) ==
    After(Found(IF n.k = "Label" THEN {n.s1} ELSE {},
                IF n.k = "Goto"
                THEN <<[line |-> n.line, col |-> n.col, sym |-> n.s1]>>
                ELSE <<>>,
                IF n.k \in {"If", "Loop"} /\ n.xs[1].k \in {"ConstI", "ConstStr"}
                THEN <<warn(n.xs[1].line, n.xs[1].col,
                            "non-bool literal used as condition")>>
                ELSE <<>>),
          walkAll(n.xs))

\* for (auto& c : n->xs) walk(c);
walkAll(xs) ==
    IF xs = <<>> THEN Found({}, <<>>, <<>>)
    ELSE After(walk(Head(xs)), walkAll(Tail(xs)))

RECURSIVE gotoErrs(_, _)
\* for (auto& g : gotos) if (!labels.count(label)) err(...): the errors pushed
gotoErrs(gotos, labs) ==
    IF gotos = <<>> THEN <<>>
    ELSE (IF Head(gotos).sym \in labs THEN <<>>
          ELSE <<err(Head(gotos).line, Head(gotos).col,
                     "goto to undefined label: " \o Head(gotos).sym)>>)
         \o gotoErrs(Tail(gotos), labs)

RECURSIVE checkDur(_), checkDurAll(_)
\* the lambda checkDur of StarCode::run: the warnings the check of n pushes
checkDur(n) ==
    (IF n.k \in {"Expire", "Sleep"} /\ GtLE(n.du_ns, DurLimit, 8)
     THEN <<warn(n.line, n.col, "duration too large")>>
     ELSE <<>>) \o checkDurAll(n.xs)

checkDurAll(xs) ==
    IF xs = <<>> THEN <<>> ELSE checkDur(Head(xs)) \o checkDurAll(Tail(xs))

\* StarCode::run: the diagnostics it leaves in diags
StarCodeRun(prog) ==
    (walk(prog).diags \o gotoErrs(walk(prog).gotos, walk(prog).labels))
        \o checkDur(prog)

-----------------------------------------------------------------------------
(* IR opcodes (enum Op, enum BinOp)                                        *)

OP_INIT == 1
OP_LEASE == 2
OP_SUBLEASE == 3
OP_RELEASE == 4
OP_LOAD == 5
OP_CALL == 6
OP_EXIT == 7
OP_RENDER == 8
OP_INPUT == 9
OP_OUTPUT == 10
OP_SEND == 11
OP_RECV == 12
OP_SPAWN == 13
OP_JOIN == 14
OP_STAMP == 15
OP_EXPIRE == 16
OP_SLEEP == 17
OP_YIELD == 18
OP_ERROR == 19
OP_PUSHK == 32
OP_PUSHCAP == 33
OP_UN == 34
OP_BIN == 35
OP_JZ == 48
OP_JNZ == 49
OP_JMP == 50

B_ADD == 9
B_SUB == 10
B_MUL == 11
B_DIV == 12
B_MOD == 13

\* op_of
op_of(s) ==
    CASE s = "||" -> 1 [] s = "&&" -> 2 [] s = "==" -> 3 [] s = "!=" -> 4
      [] s = "<" -> 5 [] s = ">" -> 6 [] s = "<=" -> 7 [] s = ">=" -> 8
      [] s = "+" -> B_ADD [] s = "-" -> B_SUB [] s = "*" -> B_MUL
      [] s = "/" -> B_DIV [] s = "%" -> B_MOD
      [] OTHER -> 0

\* (uint32_t)std::hash<string>{}(s) as u32le bytes.  The function is
\* implementation-defined; these are the values of libstdc++ (the g++ build
\* of the build instructions) for the names the input programs use.
hash(s) ==
    CASE s = "$A0" -> <<229, 83, 53, 5>>
      [] s = "$B1" -> <<148, 47, 180, 204>>
      [] s = "$f" -> <<140, 194, 135, 227>>
      [] s = "$g" -> <<55, 183, 134, 4>>
      [] s = "capsule" -> <<134, 75, 57, 21>>
      [] s = "value" -> <<221, 96, 46, 140>>
      [] s = "to" -> <<94, 68, 19, 163>>
      [] s = "function" -> <<69, 107, 102, 218>>
      [] s = "with" -> <<95, 248, 156, 21>>
      [] s = "execution" -> <<168, 163, 122, 103>>
      [] OTHER -> <<110, 42, 70, 30>>

\* the bytes of a string literal, for the strings the input programs use
StrBytes(s) ==
    CASE s = "k" -> <<107>>
      [] s = "ok" -> <<111, 107>>
      [] OTHER -> <<>>

-----------------------------------------------------------------------------
(* Emitter.  es = [text, rodata, relocs, labels, sym_func_start] is the    *)
(* Emitter object; offsets are 0-based as in the code, sequences 1-based.  *)

NewEmitter ==
    [text |-> <<>>, rodata |-> <<>>, relocs |-> <<>>,
     labels |-> <<>>, sym_func_start |-> <<>>]

\* m[k] = v of an unordered_map<string, uint32_t>
Put(m, k, v) == [x \in DOMAIN m \cup {k} |-> IF x = k THEN v ELSE m[x]]

\* Emitter::emit8, Emitter::emit32
emit8(es, b)   == [es EXCEPT !.text = Append(@, b)]
emit32(es, bs) == [es EXCEPT !.text = @ \o bs]

\* memcpy(text.data() + pos, &v, 4)
Patch(txt, pos, bs) ==
    (SubSeq(txt, 1, pos) \o bs) \o SubSeq(txt, pos + 5, Len(txt))

\* Emitter::mark
mark(es, name) == [es EXCEPT !.labels = Put(@, name, Len(es.text))]

Sentinel == <<255, 255, 255, 255>>

\* relocHere without its relocs.push_back: only the placeholder is emitted
relocHereUnrecorded(es, name) == emit32(es, Sentinel)

\* Emitter::relocHere
relocHere(es, name) ==
    emit32([es EXCEPT !.relocs = Append(@, [pos |-> Len(es.text), sym |-> name])],
           Sentinel)

\* s1; s2: the Emitter that s1 leaves is complete before s2 (K) runs on it
InOrder(es, K(_)) == IF DOMAIN es = DOMAIN NewEmitter THEN K(es) ELSE es

RECURSIVE emitExpr(_, _), emitExprs(_, _)
\* Emitter::emitExpr
emitExpr(es, n) ==
    CASE n.k = "ConstI" -> emit32(emit8(es, OP_PUSHK), Lo32(n.i64))
      [] n.k = "ConstBool" ->
           emit32(emit8(es, OP_PUSHK), u32le(IF n.b THEN 1 ELSE 0))
      [] n.k = "ConstStr" ->
           LET off == Len(es.rodata)
               e1  == [es EXCEPT !.rodata = (@ \o StrBytes(n.s1)) \o <<0>>]
           IN  emit32(emit8(e1, OP_PUSHK), u32le(off))
      [] n.k = "Var" -> emit32(emit8(es, OP_PUSHCAP), hash(n.s1))
      [] n.k = "Un" ->
           emit8(emit8(emitExpr(es, n.xs[1]), OP_UN),
                 IF n.s1 = "!" THEN 1 ELSE IF n.s1 = "-" THEN 2 ELSE 3)
      [] n.k = "Bin" ->
           emit8(emit8(emitExpr(emitExpr(es, n.xs[1]), n.xs[2]), OP_BIN),
                 op_of(n.s1))
      [] n.k = "CallExpr" -> relocHere(emit8(emitExprs(es, n.xs), OP_CALL), n.s1)
      [] OTHER -> es

\* for (auto& a : n->xs) emitExpr(a);
emitExprs(es, xs) ==
    IF xs = <<>> THEN es
    ELSE InOrder(emitExpr(es, Head(xs)), LAMBDA e : emitExprs(e, Tail(xs)))

\* emit8(op); emit32(hash(s1));
emitCap(es, op, n) == emit32(emit8(es, op), hash(n.s1))

\* the operand at pos left as the placeholder emit32(0xFFFFFFFFu) wrote
patchSkipped(es, pos) == es

\* uint32_t here = (uint32_t)text.size(); memcpy(text.data() + pos, &here, 4);
patchHere(es, pos) == [es EXCEPT !.text = Patch(@, pos, u32le(Len(es.text)))]

\* a jump back to the first byte of the body instead of the condition
jumpBackToBody(es, start) == emit32(emit8(es, OP_JMP), u32le(start + 10))

\* emit8(OP_JMP); emit32(start);
jumpBack(es, start) == emit32(emit8(es, OP_JMP), u32le(start))

RECURSIVE emitStmt(_, _), emitBlock(_, _), emitStmts(_, _), emitPrint(_, _)
\* Emitter::emitStmt
emitStmt(es, n) ==
    CASE n.k = "Init"     -> emitCap(es, OP_INIT, n)
      [] n.k = "Lease"    -> emitCap(es, OP_LEASE, n)
      [] n.k = "Sublease" -> emitCap(es, OP_SUBLEASE, n)
      [] n.k = "Release"  -> emitCap(es, OP_RELEASE, n)
      [] n.k = "Load"     -> emitCap(emitExpr(es, n.xs[1]), OP_LOAD, n)
      [] n.k = "Call"     -> relocHere(emit8(emitExprs(es, n.xs), OP_CALL), n.s1)
      [] n.k = "Exit"     -> emit8(es, OP_EXIT)
      [] n.k = "Render"   -> emitCap(es, OP_RENDER, n)
      [] n.k = "Input"    -> emitCap(es, OP_INPUT, n)
      [] n.k = "Output"   -> emitCap(es, OP_OUTPUT, n)
      [] n.k = "Send"     -> emit32(emitCap(es, OP_SEND, n), hash(n.s2))
      [] n.k = "Recv"     -> emit32(emitCap(es, OP_RECV, n), hash(n.s2))
      [] n.k = "Spawn"    -> relocHere(emit8(emitExprs(es, n.xs), OP_SPAWN), n.s1)
      [] n.k = "Join"     -> emitCap(es, OP_JOIN, n)
      [] n.k = "Stamp"    -> emit32(emitCap(es, OP_STAMP, n), Lo32(n.i64))
      [] n.k = "Expire"   -> emit32(emitCap(es, OP_EXPIRE, n), Lo32(n.du_ns))
      [] n.k = "Sleep"    -> emit32(emit8(es, OP_SLEEP), Lo32(n.du_ns))
      [] n.k = "Yield"    -> emit8(es, OP_YIELD)
      [] n.k = "Error" ->
           LET e1  == emit32(emitCap(es, OP_ERROR, n), Lo32(n.i64))
               off == Len(e1.rodata)
               e2  == [e1 EXCEPT !.rodata = (@ \o StrBytes(n.s2)) \o <<0>>]
           IN  emit32(e2, u32le(off))
      [] n.k = "If" ->
           LET e1    == emit8(emitExpr(es, n.xs[1]), OP_JZ)
               jzpos == Len(e1.text)
               e2    == emitBlock(emit32(e1, Sentinel), n.xs[2])
           IN  IF Len(n.xs) > 2
               THEN LET e3     == emit8(e2, OP_JMP)
                        jmppos == Len(e3.text)
                        e4     == emit32(e3, Sentinel)
                        e5     == patchHere(e4, jzpos)
                        e6     == emitBlock(e5, n.xs[3])
                    IN  patchHere(e6, jmppos)
               ELSE patchHere(e2, jzpos)
      [] n.k = "Loop" ->
           LET start == Len(es.text)
               e1    == emit8(emitExpr(es, n.xs[1]), OP_JZ)
               jz    == Len(e1.text)
               e2    == emitBlock(emit32(e1, Sentinel), n.xs[2])
               e3    == jumpBack(e2, start)
           IN  patchHere(e3, jz)
      [] n.k = "Return" ->
           emit8(IF n.xs # <<>> THEN emitExpr(es, n.xs[1]) ELSE es, OP_EXIT)
      [] n.k = "Print" -> emitPrint(es, n.xs)
      [] n.k = "Label" -> mark(es, ":" \o n.s1)
      [] n.k = "Goto"  -> relocHere(emit8(es, OP_JMP), ":" \o n.s1)
      [] n.k \in {"Var", "ConstI", "ConstStr", "ConstBool", "Bin", "Un",
                  "CallExpr"} -> emitExpr(es, n)
      [] n.k = "Block" -> emitBlock(es, n)
      [] OTHER -> es

\* case Print: for (auto& e : n->xs) { emitExpr(e); emit8(OP_OUTPUT); emit32(0); }
emitPrint(es, xs) ==
    IF xs = <<>> THEN es
    ELSE InOrder(emit32(emit8(emitExpr(es, Head(xs)), OP_OUTPUT), Z4),
                 LAMBDA e : emitPrint(e, Tail(xs)))

emitStmts(es, xs) ==
    IF xs = <<>> THEN es
    ELSE InOrder(emitStmt(es, Head(xs)), LAMBDA e : emitStmts(e, Tail(xs)))

\* Emitter::emitBlock
emitBlock(es, b) == emitStmts(es, b.xs)

\* Emitter::emitFunc
emitFunc(es, f) ==
    LET e1 == [es EXCEPT !.sym_func_start = Put(@, f.s1, Len(es.text))]
        e2 == mark(e1, f.s1)
    IN  emit8(emitBlock(e2, f.xs[Len(f.xs)]), OP_EXIT)

RECURSIVE emitItems(_, _)
\* the first loop of Emitter::build
emitItems(es, xs) ==
    IF xs = <<>> THEN es
    ELSE InOrder(IF Head(xs).k \in {"Func", "Worker"} THEN emitFunc(es, Head(xs))
                 ELSE IF Head(xs).k = "Block"
                         /\ Head(xs).s1 \in {"@main", "@entry_point"}
                      THEN emitBlock(es, Head(xs))
                      ELSE es,
                 LAMBDA e : emitItems(e, Tail(xs)))

\* one iteration of the relocation loop of Emitter::build for entry r:
\* the labels map and the text afterwards, or the unresolved symbol
resolve(txt, labs, syms, r) ==
    LET labs2 == IF r.sym \notin DOMAIN labs /\ r.sym \in DOMAIN syms
                 THEN Put(labs, r.sym, syms[r.sym]) ELSE labs
    IN  IF r.sym \in DOMAIN labs2
        THEN [ok |-> TRUE, labels |-> labs2,
              text |-> Patch(txt, r.pos, u32le(labs2[r.sym]))]
        ELSE [ok |-> FALSE, sym |-> r.sym]

-----------------------------------------------------------------------------
(* 64-bit arithmetic of Optimizer::peephole on little-endian bytes         *)

RECURSIVE AddC(_, _, _, _), SubC(_, _, _, _), MulS(_, _, _, _)
\* a + b + c from byte j on, modulo 256^Len(a)
AddC(a, b, j, c) ==
    IF j > Len(a) THEN <<>>
    ELSE LET s == a[j] + b[j] + c IN
         <<s % 256>> \o AddC(a, b, j + 1, s \div 256)

\* a - b - c from byte j on, modulo 256^Len(a) (two's complement)
SubC(a, b, j, c) ==
    IF j > Len(a) THEN <<>>
    ELSE LET d == a[j] - b[j] - c IN
         <<(d + 256) % 256>> \o SubC(a, b, j + 1, IF d < 0 THEN 1 ELSE 0)

\* a * k + c for one byte k, from byte j on, modulo 256^Len(a)
MulS(a, k, j, c) ==
    IF j > Len(a) THEN <<>>
    ELSE LET p == a[j] * k + c IN
         <<p % 256>> \o MulS(a, k, j + 1, p \div 256)

Add64(a, b) == AddC(a, b, 1, 0)
Sub64(a, b) == SubC(a, b, 1, 0)

RECURSIVE MulAcc(_, _, _)
\* the sum over the bytes b[j..] of (a * b[j]) << 8(j-1), modulo 2^64
MulAcc(a, b, j) ==
    IF j > Len(b) THEN Z8
    ELSE Add64(SubSeq([x \in 1..(j - 1) |-> 0] \o MulS(a, b[j], 1, 0), 1, 8),
               MulAcc(a, b, j + 1))

\* (long long)a * (long long)b.  A product of 2^63 or more overflows long
\* long, which the language leaves undefined; the builds of the build
\* instructions (g++ -O2, cl /O2, no trapping) multiply modulo 2^64.
Mul64(a, b) == MulAcc(a, b, 1)

\* the remainder so far shifted left by one with bit i of a shifted in
ShiftIn(a, i, r) ==
    Add64(Add64(r, r), U64((a[(i \div 8) + 1] \div (2 ^ (i % 8))) % 2))

RECURSIVE DivStep(_, _, _, _, _, _)
\* binary long division of a by b # 0, from bit i down: [q, r]; the
\* quotient is kept as its high and its low 16 bits
DivStep(a, b, i, qhi, qlo, r) ==
    IF i < 0
    THEN [q |-> <<qlo % 256, qlo \div 256, qhi % 256, qhi \div 256>> \o Z4,
          r |-> r]
    ELSE IF GtLE(b, ShiftIn(a, i, r), 8)
         THEN DivStep(a, b, i - 1, qhi, qlo, ShiftIn(a, i, r))
         ELSE DivStep(a, b, i - 1,
                      IF i >= 16 THEN qhi + 2 ^ (i - 16) ELSE qhi,
                      IF i < 16 THEN qlo + 2 ^ i ELSE qlo,
                      Sub64(ShiftIn(a, i, r), b))

\* (b ? a / b : 0) and (b ? a % b : 0) for a, b below 2^32
Div64(a, b) == IF b = Z8 THEN Z8 ELSE DivStep(a, b, 31, 0, 0, Z8).q
Mod64(a, b) == IF b = Z8 THEN Z8 ELSE DivStep(a, b, 31, 0, 0, Z8).r

-----------------------------------------------------------------------------
(* Peephole optimizer                                                      *)

\* the long long r computed for the window's a, b and bop
foldValue(a, b, bop) ==
    LET la == a \o Z4
        lb == b \o Z4
    IN  CASE bop = B_ADD -> Add64(la, lb)
          [] bop = B_SUB -> Sub64(la, lb)
          [] bop = B_MUL -> Mul64(la, lb)
          [] bop = B_DIV -> Div64(la, lb)
          [] bop = B_MOD -> Mod64(la, lb)

\* the conditions of both ifs at 0-based offset i = j - 1: PUSHK, PUSHK and
\* BIN with a foldable operator
windowAt(code, j) ==
    /\ j + 11 <= Len(code)
    /\ code[j] = OP_PUSHK
    /\ code[j + 5] = OP_PUSHK
    /\ code[j + 10] = OP_BIN
    /\ code[j + 11] \in {B_ADD, B_SUB, B_MUL, B_DIV, B_MOD}

\* the first offset from j on at which the loop folds; Len(code) + 1 if none
nextWindow(code, j) ==
    IF \E h \in j..Len(code) : windowAt(code, h)
    THEN CHOOSE h \in j..Len(code) :
             windowAt(code, h) /\ \A k \in j..(h - 1) : ~windowAt(code, k)
    ELSE Len(code) + 1

RECURSIVE peepholeFrom(_, _, _), foldAt(_, _, _)
\* the for loop of Optimizer::peephole from i = j - 1 on: out.push_back(code[i])
\* up to the next window h, then the fold at h
peepholeFrom(code, j, out) ==
    foldAt(code, nextWindow(code, j), out \o SubSeq(code, j, nextWindow(code, j) - 1))

\* out.push_back(PUSHK); the four bytes of (uint32_t)r; i += 11; continue
foldAt(code, h, out) ==
    IF h > Len(code) THEN out
    ELSE peepholeFrom(code, h + 12,
             (out \o <<OP_PUSHK>>)
                 \o Lo32(foldValue(SubSeq(code, h + 1, h + 4),
                                   SubSeq(code, h + 6, h + 9),
                                   code[h + 11])))

\* Optimizer::peephole
peephole(code) == peepholeFrom(code, 1, <<>>)

-----------------------------------------------------------------------------
(* Lexer.  The source is a sequence of characters (strings of length one); *)
(* L = [src, i, line, col] is the Lexer object.                            *)

Lexer(s) == [src |-> s, i |-> 0, line |-> 1, col |-> 1]

\* the Lexer of the specifications that start from the tokens of a source
NoSource == Lexer(<<>>)

NUL == ""

Digits  == {"0", "1", "2", "3", "4", "5", "6", "7", "8", "9"}
Letters ==
    {"a", "b", "c", "d", "e", "f", "g", "h", "i", "j", "k", "l", "m", "n", "o",
     "p", "q", "r", "s", "t", "u", "v", "w", "x", "y", "z", "A", "B", "C", "D",
     "E", "F", "G", "H", "I", "J", "K", "L", "M", "N", "O", "P", "Q", "R", "S",
     "T", "U", "V", "W", "X", "Y", "Z"}
HexDigits == Digits \cup {"a", "b", "c", "d", "e", "f", "A", "B", "C", "D", "E", "F"}
Spaces    == {" ", "\t", "\n", "\r", "\f"}

\* isIdentStart, isIdent
isIdentStart(c) == c \in Letters \cup {"_", "$"}
isIdent(c)      == c \in Letters \cup Digits \cup {"_", "$", "/"}

\* Lexer::peek, Lexer::get (the Lexer afterwards), Lexer::starts
peek(L) == IF L.i < Len(L.src) THEN L.src[L.i + 1] ELSE NUL
get(L) ==
    [L EXCEPT !.line = IF peek(L) = "\n" THEN @ + 1 ELSE @,
              !.col  = IF peek(L) = "\n" THEN 1 ELSE @ + 1,
              !.i    = IF L.i < Len(L.src) THEN @ + 1 ELSE @]
starts(L, s) ==
    /\ L.i + Len(s) <= Len(L.src)
    /\ SubSeq(L.src, L.i + 1, L.i + Len(s)) = s

RECURSIVE getWhile(_, _), toEol(_), toClose(_), skip(_), Str(_), strtoull(_, _),
          scanString(_, _)

\* while (peek() is in cs) get();
getWhile(L, cs) == IF peek(L) \in cs THEN getWhile(get(L), cs) ELSE L

\* while (peek() && peek() != '\n') get();
toEol(L) == IF peek(L) # NUL /\ peek(L) # "\n" THEN toEol(get(L)) ELSE L

\* while (peek() && !starts("*/")) get();
toClose(L) ==
    IF peek(L) # NUL /\ ~starts(L, <<"*", "/">>) THEN toClose(get(L)) ELSE L

\* the end of a block comment whose opening has been read: the closing */ is
\* read when there is one
closeComment(L) == IF starts(L, <<"*", "/">>) THEN get(get(L)) ELSE L

\* Lexer::skip
skip(L) ==
    IF peek(L) \in Spaces THEN skip(getWhile(L, Spaces))
    ELSE IF starts(L, <<"/", "/">>) THEN skip(toEol(L))
    ELSE IF starts(L, <<"/", "*">>) THEN skip(closeComment(toClose(get(get(L)))))
    ELSE L

\* Lexer::make
make(k, lex, Ln, Cn) == [Tk(k, lex) EXCEPT !.line = Ln, !.col = Cn]

\* what next() returns and the Lexer afterwards
Lexed(t, L) == [tok |-> t, lx |-> L]

\* the string of a sequence of characters; src.substr(a, b - a) for the
\* 0-based positions a, b
Str(cs) == IF cs = <<>> THEN "" ELSE Head(cs) \o Str(Tail(cs))
substr(L, a, b) == Str(SubSeq(L.src, a + 1, b))

\* the loop of lexString from Lexer L on, with the characters s read so far
scanString(L, s) ==
    IF peek(L) # NUL /\ peek(L) # "\""
    THEN IF peek(L) = "\\" /\ peek(get(L)) # NUL
         THEN scanString(get(get(L)),
                         s \o (IF peek(get(L)) = "n" THEN "\n"
                               ELSE IF peek(get(L)) = "t" THEN "\t"
                               ELSE peek(get(L))))
         ELSE scanString(get(L), s \o peek(L))
    ELSE [lx |-> L, s |-> s]

\* the return of lexString after its loop has ended in r
endString(r, Ln, Cn) ==
    IF peek(r.lx) # "\""
    THEN Lexed(make("Error", "unterminated string", Ln, Cn), r.lx)
    ELSE Lexed(make("String", r.s, Ln, Cn), get(r.lx))

\* Lexer::lexString; the opening quote has been read
lexString(L, Ln, Cn) == endString(scanString(L, ""), Ln, Cn)

\* the value of a digit, and strtoull(num, nullptr, base) for the digits cs
\* (the sources of the model hold no number of 2^31 or more)
DigitVal(c) ==
    CASE c \in {"a", "A"} -> 10 [] c \in {"b", "B"} -> 11 [] c \in {"c", "C"} -> 12
      [] c \in {"d", "D"} -> 13 [] c \in {"e", "E"} -> 14 [] c \in {"f", "F"} -> 15
      [] OTHER -> CHOOSE d \in 0..9 :
                      <<"0", "1", "2", "3", "4", "5", "6", "7", "8", "9">>[d + 1] = c
strtoull(cs, base) ==
    IF cs = <<>> THEN 0
    ELSE strtoull(SubSeq(cs, 1, Len(cs) - 1), base) * base + DigitVal(cs[Len(cs)])

\* the nanoseconds of one unit of a duration suffix
UnitNs(suf) ==
    CASE suf = "ns" -> U64(1)
      [] suf = "ms" -> U64(1000000)
      [] suf = "s"  -> U64(1000000000)
      [] suf = "m"  -> Mul64(U64(60), U64(1000000000))
      [] suf = "h"  -> Mul64(U64(3600), U64(1000000000))

\* the end of lexNumberOrDuration: start is the position of the first
\* character, D the Lexer after the digits, E the Lexer after the suffix
endNumber(start, isHex, D, E, Ln, Cn) ==
    IF E.i > D.i
    THEN IF substr(E, D.i, E.i) \in {"ns", "ms", "s", "m", "h"}
         THEN Lexed([make("Duration", substr(E, start, E.i), Ln, Cn)
                       EXCEPT !.du_ns =
                           Mul64(U64(strtoull(SubSeq(E.src,
                                                     start + (IF isHex THEN 3 ELSE 1),
                                                     D.i),
                                              IF isHex THEN 16 ELSE 10)),
                                 UnitNs(substr(E, D.i, E.i)))], E)
         ELSE Lexed(make("Error", "bad duration unit '" \o substr(E, D.i, E.i)
                                   \o "'", Ln, Cn), E)
    ELSE Lexed([make("Number", substr(D, start, D.i), Ln, Cn)
                  EXCEPT !.ival =
                      U64(strtoull(SubSeq(D.src, start + (IF isHex THEN 3 ELSE 1),
                                          D.i),
                                   IF isHex THEN 16 ELSE 10))], D)

\* the duration suffix: if (isalpha(peek())) while (isalpha(peek())) get();
afterSuffix(start, isHex, D, Ln, Cn) ==
    endNumber(start, isHex, D, getWhile(D, Letters), Ln, Cn)

\* Lexer::lexNumberOrDuration
lexNumberOrDuration(L, Ln, Cn) ==
    IF starts(L, <<"0", "x">>) \/ starts(L, <<"0", "X">>)
    THEN afterSuffix(L.i, TRUE, getWhile(get(get(L)), HexDigits), Ln, Cn)
    ELSE afterSuffix(L.i, FALSE, getWhile(L, Digits), Ln, Cn)

\* Lexer::kw
kw(id) ==
    CASE id \in {"true", "false"} -> "Bool"
      [] id = "@main" -> "AtMain" [] id = "@entry_point" -> "AtEntryPoint"
      [] id = "@module" -> "Module" [] id = "@import" -> "Import"
      [] id = "@export" -> "Export" [] id = "function" -> "Function"
      [] id = "worker" -> "Worker" [] id = "let" -> "Let" [] id = "goto" -> "Goto"
      [] id = "if" -> "If" [] id = "else" -> "Else" [] id = "endif" -> "EndIf"
      [] id = "loop" -> "Loop" [] id = "return" -> "Return"
      [] id = "print" -> "Print"
      [] id = "#init" -> "HashInit" [] id = "#lease" -> "HashLease"
      [] id = "#sublease" -> "HashSublease" [] id = "#release" -> "HashRelease"
      [] id = "#load" -> "HashLoad" [] id = "#call" -> "HashCall"
      [] id = "#exit" -> "HashExit" [] id = "#if" -> "HashIf"
      [] id = "#else" -> "HashElse" [] id = "#endif" -> "HashEndIf"
      [] id = "#loop" -> "HashLoop" [] id = "#render" -> "HashRender"
      [] id = "#input" -> "HashInput" [] id = "#output" -> "HashOutput"
      [] id = "#send" -> "HashSend" [] id = "#recv" -> "HashRecv"
      [] id = "#spawn" -> "HashSpawn" [] id = "#join" -> "HashJoin"
      [] id = "#stamp" -> "HashStamp" [] id = "#expire" -> "HashExpire"
      [] id = "#sleep" -> "HashSleep" [] id = "#yield" -> "HashYield"
      [] id = "#error" -> "HashError" [] id = "initialize" -> "Initialize"
      [] id = "assign" -> "AssignValue" [] id = "invoke" -> "InvokeFunction"
      [] id = "terminate" -> "TerminateExecution"
      [] OTHER -> "Ident"

\* the kinds of the punctuation and operator tokens of one character
Punct(c) ==
    CASE c = "(" -> "LParen" [] c = ")" -> "RParen" [] c = "{" -> "LBrace"
      [] c = "}" -> "RBrace" [] c = "[" -> "LBracket" [] c = "]" -> "RBracket"
      [] c = "," -> "Comma" [] c = ";" -> "Semi" [] c = "." -> "Dot"
      [] c = "=" -> "Assign" [] c = "<" -> "Lt" [] c = ">" -> "Gt"
      [] c = "+" -> "Plus" [] c = "-" -> "Minus" [] c = "*" -> "Star"
      [] c = "/" -> "Slash" [] c = "%" -> "Percent" [] c = "!" -> "Bang"
      [] c = "~" -> "Tilde"

\* the kinds of the operator tokens of two characters
Punct2(s) ==
    CASE s = "!=" -> "Ne" [] s = "==" -> "Eq" [] s = "<=" -> "Le"
      [] s = ">=" -> "Ge" [] s = "&&" -> "AndAnd" [] s = "||" -> "OrOr"

\* the identifier branch of Lexer::next: E is the Lexer after the loop that
\* reads isIdent characters and ':', '@', '#' and stops at '<' and '>'.  kw
\* maps true and false to Tok::Bool, so the branch that sets bval is never
\* taken.
lexIdent(L, E, Ln, Cn) ==
    Lexed(make(kw(substr(E, L.i, E.i)), substr(E, L.i, E.i), Ln, Cn), E)

\* the label branch of Lexer::next: B is the Lexer after the ':'
lexLabel(B, Ln, Cn) ==
    IF ~isIdentStart(peek(B))
    THEN Lexed(make("Error", "expected label", Ln, Cn), B)
    ELSE Lexed(make("Label",
                    substr(B, B.i, getWhile(B, Letters \cup Digits \cup
                                               {"_", "$", "/"}).i),
                    Ln, Cn),
               getWhile(B, Letters \cup Digits \cup {"_", "$", "/"}))

\* Lexer::next after skip(): L stands at the first character of the token
nextAt(L) ==
    IF peek(L) = NUL THEN Lexed(make("End", "", L.line, L.col), L)
    ELSE IF peek(L) = ":" THEN lexLabel(get(L), L.line, L.col)
    ELSE IF peek(L) \in {"(", ")", "{", "}", "[", "]", ",", ";", "."}
    THEN Lexed(make(Punct(peek(L)), peek(L), L.line, L.col), get(L))
    ELSE IF peek(L) \o peek(get(L)) \in {"!=", "==", "<=", ">=", "&&", "||"}
    THEN Lexed(make(Punct2(peek(L) \o peek(get(L))), peek(L) \o peek(get(L)),
                    L.line, L.col),
               get(get(L)))
    ELSE IF peek(L) \in {"=", "<", ">", "+", "-", "*", "/", "%", "!", "~"}
    THEN Lexed(make(Punct(peek(L)), peek(L), L.line, L.col), get(L))
    ELSE IF peek(L) = "\"" THEN lexString(get(L), L.line, L.col)
    ELSE IF peek(L) \in Digits THEN lexNumberOrDuration(L, L.line, L.col)
    ELSE IF isIdentStart(peek(L)) \/ peek(L) \in {"@", "#"}
    THEN lexIdent(L, getWhile(get(L), Letters \cup Digits \cup
                                       {"_", "$", "/", ":", "@", "#"}),
                  L.line, L.col)
    ELSE Lexed(make("Error", "unexpected char '" \o peek(L) \o "'",
                    L.line, L.col), L)

\* Lexer::next
next(L) == nextAt(skip(L))

-----------------------------------------------------------------------------
(* Input programs, as the token streams of their sources                   *)

Dur5ms   == <<64, 75, 76, 0, 0, 0, 0, 0>>          \* 5 * 1000000
Dur5m    == <<0, 184, 100, 217, 69, 0, 0, 0>>      \* 5 * 60 * 1000000000
DurHuge  == <<0, 0, 34, 251, 185, 60, 16, 129>>    \* 9300000000 * 1000000000

ExitBlock == <<Tk("LBrace", "{"), Tk("HashExit", "#exit"), Tk("RBrace", "}")>>

\* #if ( lit ) { #exit } #endif
IfPhrase(lit) ==
    (<<Tk("HashIf", "#if"), Tk("LParen", "("), lit, Tk("RParen", ")")>>
        \o ExitBlock) \o <<Tk("HashEndIf", "#endif")>>

\* the statements an entry block is made of
Phrases == <<
    <<Tk("HashInit", "#init"), Tk("Ident", "$A0")>>,
    <<Tk("HashExit", "#exit")>>,
    <<Tk("HashLoad", "#load"), Tk("Ident", "$A0"), Tk("Comma", ","),
      TkNum("255", U64(255))>>,
    <<Tk("HashCall", "#call"), Tk("Ident", "$f"), Tk("Comma", ","),
      Tk("Ident", "$A0")>>,
    <<Tk("Initialize", "initialize"), Tk("Ident", "capsule"), Tk("Ident", "$A0")>>,
    <<Tk("TerminateExecution", "terminate"), Tk("Ident", "execution")>>,
    <<Tk("AssignValue", "assign"), Tk("Ident", "value"), TkNum("255", U64(255)),
      Tk("Ident", "to"), Tk("Ident", "capsule"), Tk("Ident", "$A0")>>,
    <<Tk("InvokeFunction", "invoke"), Tk("Ident", "function"), Tk("Ident", "$f"),
      Tk("Ident", "with"), Tk("Ident", "capsule"), Tk("Ident", "$A0")>>,
    <<Tk("HashLease", "#lease"), Tk("Ident", "$A0")>>,
    <<Tk("HashRelease", "#release"), Tk("Ident", "$A0")>>,
    <<Tk("Goto", "goto"), Tk("Label", "L"), Tk("Semi", ";")>>,
    <<Tk("Label", "L")>>,
    <<Tk("HashSleep", "#sleep"), TkDur("5ms", Dur5ms)>>,
    <<Tk("HashSleep", "#sleep"), TkDur("9300000000s", DurHuge)>>,
    <<Tk("HashSleep", "#sleep"), Tk("Minus", "-"), TkDur("5ms", Dur5ms)>>,
    <<Tk("HashExpire", "#expire"), Tk("Ident", "$A0"), Tk("Comma", ","),
      TkDur("5m", Dur5m)>>,
    <<Tk("HashExpire", "#expire"), Tk("Ident", "$A0"), Tk("Comma", ","),
      Tk("Minus", "-"), TkDur("5m", Dur5m)>>,
    <<Tk("HashSpawn", "#spawn"), Tk("Ident", "$f")>>,
    <<Tk("HashSpawn", "#spawn"), Tk("Ident", "$g")>>,
    IfPhrase(TkNum("1", U64(1))),
    IfPhrase(Tk("String", "k")),
    IfPhrase(TkDur("5ms", Dur5ms)),
    <<Tk("Error", "unexpected char '?'")>>
  >>

RECURSIVE Flatten(_)
Flatten(ss) == IF ss = <<>> THEN <<>> ELSE Head(ss) \o Flatten(Tail(ss))

\* the token streams of the entry-block bodies of up to n statements
Bodies(n) ==
    UNION { { Flatten([j \in 1..m |-> Phrases[f[j]]]) :
                f \in [1..m -> 1..Len(Phrases)] } : m \in 0..n }

\* @main { body } and @entry_point { body }
Main(body) ==
    (<<Tk("AtMain", "@main"), Tk("LBrace", "{")>> \o body)
        \o <<Tk("RBrace", "}")>>
EntryPoint(body) ==
    (<<Tk("AtEntryPoint", "@entry_point"), Tk("LBrace", "{")>> \o body)
        \o <<Tk("RBrace", "}")>>

\* function $f ( ) { :L #exit }
FuncF ==
    <<Tk("Function", "function"), Tk("Ident", "$f"), Tk("LParen", "("),
      Tk("RParen", ")"), Tk("LBrace", "{"), Tk("Label", "L"),
      Tk("HashExit", "#exit"), Tk("RBrace", "}")>>

\* worker $f ( ) { #exit }
WorkerF ==
    <<Tk("Worker", "worker"), Tk("Ident", "$f"), Tk("LParen", "("),
      Tk("RParen", ")")>> \o ExitBlock

\* #sleep 32ns and #sleep 2339ns: the operands 0x20 and 0x0923 hold the bytes
\* of OP_PUSHK and of OP_BIN, B_ADD
Sleep32ns   == <<Tk("HashSleep", "#sleep"), TkDur("32ns", U64(32))>>
Sleep2339ns == <<Tk("HashSleep", "#sleep"), TkDur("2339ns", U64(2339))>>

\* function $f ( ) { #sleep 2339ns #exit }
NapF ==
    (<<Tk("Function", "function"), Tk("Ident", "$f"), Tk("LParen", "("),
       Tk("RParen", ")"), Tk("LBrace", "{")>> \o Sleep2339ns)
        \o <<Tk("HashExit", "#exit"), Tk("RBrace", "}")>>

\* #error $A0, 1, "ok"
ErrorOk ==
    <<Tk("HashError", "#error"), Tk("Ident", "$A0"), Tk("Comma", ","),
      TkNum("1", U64(1)), Tk("Comma", ","), Tk("String", "ok")>>

\* the entry-block bodies of up to n statements out of #sleep 32ns, #exit,
\* #spawn $f and #error $A0, 1, "ok"
NapPhrases == <<Sleep32ns, Phrases[2], Phrases[18], ErrorOk>>
NapBodies(n) ==
    UNION { { Flatten([j \in 1..m |-> NapPhrases[f[j]]]) :
                f \in [1..m -> 1..Len(NapPhrases)] } : m \in 0..n }

\* #load $A0, 1 a 2 b 3 with operator tokens a, b
OpToks == {Tk("OrOr", "||"), Tk("Plus", "+"), Tk("Star", "*")}
LoadExpr(a, b) ==
    <<Tk("HashLoad", "#load"), Tk("Ident", "$A0"), Tk("Comma", ","),
      TkNum("1", U64(1)), a, TkNum("2", U64(2)), b, TkNum("3", U64(3))>>

\* #break and #continue: Lexer::kw has no entry for them, so that they are
\* Ident tokens
Break    == <<Tk("Ident", "#break")>>
Continue == <<Tk("Ident", "#continue")>>

Programs ==
    { WithPos(Main(b)) : b \in Bodies(MaxStmts) }
      \cup { WithPos(Main(b) \o NapF) : b \in NapBodies(MaxStmts) }
      \cup { WithPos(FuncF \o Main(b)) : b \in Bodies(MaxStmts) }
      \cup { WithPos(Main(b) \o WorkerF) : b \in Bodies(1) }
      \cup { WithPos((FuncF \o Main(b)) \o WorkerF) : b \in NapBodies(1) }
      \cup { WithPos(Main(b) \o EntryPoint(Phrases[2])) : b \in Bodies(1) }
      \cup { WithPos(Main(LoadExpr(a, b))) : a, b \in OpToks }
      \cup { WithPos(Main(b)) : b \in {Break, Continue, Phrases[2] \o Break} }
      \cup { WithPos(Main(b) \o FuncF) :
                b \in {Phrases[12] \o Phrases[11], Phrases[11]} }
      \cup { <<>>, WithPos(FuncF) }

-----------------------------------------------------------------------------
(* main(): one action per step                                             *)

\* Cmd as parseArgs returns it: --no-disasm clears wantDisasm
Cmd == [wantDisasm : BOOLEAN]

NullNode == N("null", 0, 0)

NoThrow == [kind |-> "", detail |-> ""]

NoBuild == [text |-> <<>>, rodata |-> <<>>, syms |-> <<>>]

\* the state in which main starts on the source whose tokens are ts
Start(ts) ==
    /\ lx = NoSource
    /\ cmd \in Cmd
    /\ toks = ts
    /\ pc = "read"
    /\ ast = NullNode
    /\ thrown = NoThrow
    /\ diags = <<>>
    /\ di = 1
    /\ errOut = <<>>
    /\ text = <<>>
    /\ rodata = <<>>
    /\ relocs = <<>>
    /\ labels = <<>>
    /\ sym_func_start = <<>>
    /\ ri = 1
    /\ patched = <<>>
    /\ build = NoBuild
    /\ files = <<>>
    /\ exitCode = -1

Init == \E ts \in Programs : Start(ts)

\* throw runtime_error(kind + detail), caught by the catch of main
Throw(kind, detail) ==
    /\ thrown' = [kind |-> kind, detail |-> detail]
    /\ pc' = "catch"

\* read_file(cmd.inPath) succeeds
ReadOk ==
    /\ pc = "read"
    /\ pc' = "parse"
    /\ UNCHANGED <<lx, cmd, toks, ast, thrown, diags, di, errOut, text, rodata, relocs,
                   labels, sym_func_start, ri, patched, build, files, exitCode>>

\* read_file(cmd.inPath) throws
ReadFail ==
    /\ pc = "read"
    /\ Throw("cannot open: ", "input")
    /\ UNCHANGED <<lx, cmd, toks, ast, diags, di, errOut, text, rodata, relocs, labels,
                   sym_func_start, ri, patched, build, files, exitCode>>

\* Parser ps(src); auto ast = ps.parse();
Parse ==
    /\ pc = "parse"
    /\ LET r == parse(toks) IN
       IF r.ok
       THEN /\ ast' = r.n
            /\ pc' = "validate"
            /\ UNCHANGED thrown
       ELSE /\ Throw("parse error", " @" \o ToString(r.line) \o ":"
                       \o ToString(r.col) \o ": " \o r.msg
                       \o " (tok=" \o r.tok \o ")")
            /\ UNCHANGED ast
    /\ UNCHANGED <<lx, cmd, toks, diags, di, errOut, text, rodata, relocs, labels,
                   sym_func_start, ri, patched, build, files, exitCode>>

\* StarCode sc; sc.run(ast);
Validate ==
    /\ pc = "validate"
    /\ diags' = StarCodeRun(ast)
    /\ di' = 1
    /\ pc' = "report"
    /\ UNCHANGED <<lx, cmd, toks, ast, thrown, errOut, text, rodata, relocs, labels,
                   sym_func_start, ri, patched, build, files, exitCode>>

\* the line cerr gets for diagnostic d
DiagLine(d) ==
    d.kind \o ": " \o d.msg \o " @" \o ToString(d.line) \o ":" \o ToString(d.col)

\* one iteration of: for (auto& d : sc.diags) { cerr << ...; if error throw }
Report ==
    /\ pc = "report"
    /\ di <= Len(diags)
    /\ errOut' = Append(errOut, DiagLine(diags[di]))
    /\ IF diags[di].kind = "error"
       THEN Throw("star-code error", "") /\ UNCHANGED di
       ELSE di' = di + 1 /\ UNCHANGED <<pc, thrown>>
    /\ UNCHANGED <<lx, cmd, toks, ast, diags, text, rodata, relocs, labels,
                   sym_func_start, ri, patched, build, files, exitCode>>

\* the diagnostic loop ends
ReportDone ==
    /\ pc = "report"
    /\ di > Len(diags)
    /\ pc' = "emit"
    /\ UNCHANGED <<lx, cmd, toks, ast, thrown, diags, di, errOut, text, rodata, relocs,
                   labels, sym_func_start, ri, patched, build, files, exitCode>>

\* Emitter em; the first loop of em.build(ast)
Emit ==
    /\ pc = "emit"
    /\ LET es == emitItems(NewEmitter, ast.xs) IN
       /\ text' = es.text
       /\ rodata' = es.rodata
       /\ relocs' = es.relocs
       /\ labels' = es.labels
       /\ sym_func_start' = es.sym_func_start
    /\ ri' = 1
    /\ pc' = "link"
    /\ UNCHANGED <<lx, cmd, toks, ast, thrown, diags, di, errOut, patched, build, files,
                   exitCode>>

\* the relocation loop without its throw: an entry whose symbol is unknown is
\* passed over and its placeholder stays in the text
LinkStepSkipUnresolved ==
    /\ pc = "link"
    /\ ri <= Len(relocs)
    /\ LET r == resolve(text, labels, sym_func_start, relocs[ri]) IN
       IF r.ok
       THEN /\ text' = r.text
            /\ labels' = r.labels
            /\ patched' = Append(patched, relocs[ri].pos)
       ELSE UNCHANGED <<text, labels, patched>>
    /\ ri' = ri + 1
    /\ UNCHANGED <<lx, cmd, toks, pc, ast, thrown, diags, di, errOut, rodata, relocs,
                   sym_func_start, build, files, exitCode>>

\* one iteration of the relocation loop of em.build
LinkStep ==
    /\ pc = "link"
    /\ ri <= Len(relocs)
    /\ LET r == resolve(text, labels, sym_func_start, relocs[ri]) IN
       IF r.ok
       THEN /\ text' = r.text
            /\ labels' = r.labels
            /\ patched' = Append(patched, relocs[ri].pos)
            /\ ri' = ri + 1
            /\ UNCHANGED <<pc, thrown>>
       ELSE /\ Throw("unresolved symbol: ", r.sym)
            /\ UNCHANGED <<text, labels, patched, ri>>
    /\ UNCHANGED <<lx, cmd, toks, ast, diags, di, errOut, rodata, relocs,
                   sym_func_start, build, files, exitCode>>

\* em.build returns BuildResult br{ text, rodata, sym_func_start }
LinkDone ==
    /\ pc = "link"
    /\ ri > Len(relocs)
    /\ build' = [text |-> text, rodata |-> rodata, syms |-> sym_func_start]
    /\ pc' = "optimize"
    /\ UNCHANGED <<lx, cmd, toks, ast, thrown, diags, di, errOut, text, rodata, relocs,
                   labels, sym_func_start, ri, patched, files, exitCode>>

\* Optimizer::peephole(build.text)
Optimize ==
    /\ pc = "optimize"
    /\ build' = [build EXCEPT !.text = peephole(@)]
    /\ pc' = "write"
    /\ UNCHANGED <<lx, cmd, toks, ast, thrown, diags, di, errOut, text, rodata, relocs,
                   labels, sym_func_start, ri, patched, files, exitCode>>

\* hex2, dump_hex
Digit(d) == SubSeq(<<"0", "1", "2", "3", "4", "5", "6", "7", "8", "9", "A", "B",
                     "C", "D", "E", "F">>, d + 1, d + 1)[1]
hex2(b) == Digit(b \div 16) \o Digit(b % 16)
dump_hex(v) == [i \in 1..Len(v) |-> hex2(v[i])]

\* the mnemonic disasm prints for opcode byte op
OP_END == 255
mn(op) ==
    CASE op = OP_INIT -> "INIT" [] op = OP_LEASE -> "LEASE"
      [] op = OP_SUBLEASE -> "SUBLEASE" [] op = OP_RELEASE -> "RELEASE"
      [] op = OP_LOAD -> "LOAD" [] op = OP_CALL -> "CALL" [] op = OP_EXIT -> "EXIT"
      [] op = OP_RENDER -> "RENDER" [] op = OP_INPUT -> "INPUT"
      [] op = OP_OUTPUT -> "OUTPUT" [] op = OP_SEND -> "SEND"
      [] op = OP_RECV -> "RECV" [] op = OP_SPAWN -> "SPAWN" [] op = OP_JOIN -> "JOIN"
      [] op = OP_STAMP -> "STAMP" [] op = OP_EXPIRE -> "EXPIRE"
      [] op = OP_SLEEP -> "SLEEP" [] op = OP_YIELD -> "YIELD"
      [] op = OP_ERROR -> "ERROR" [] op = OP_PUSHK -> "PUSHK"
      [] op = OP_PUSHCAP -> "PUSHCAP" [] op = OP_UN -> "UN" [] op = OP_BIN -> "BIN"
      [] op = OP_JZ -> "JZ" [] op = OP_JNZ -> "JNZ" [] op = OP_JMP -> "JMP"
      [] op = OP_END -> "END" [] OTHER -> "DB"

\* the number of bytes disasm reads after opcode byte op before it ends the
\* line: the if / else-if chain of its loop
operandBytes(op) ==
    IF op \in {OP_PUSHK, OP_PUSHCAP, OP_LOAD, OP_INIT, OP_LEASE, OP_SUBLEASE,
               OP_RELEASE, OP_RENDER, OP_INPUT, OP_OUTPUT, OP_SEND, OP_RECV,
               OP_JOIN, OP_STAMP, OP_EXPIRE, OP_SLEEP, OP_JMP, OP_CALL, OP_ERROR}
    THEN 4 + (IF op \in {OP_SEND, OP_RECV} THEN 4 ELSE 0)
           + (IF op = OP_ERROR THEN 4 ELSE 0)
    ELSE IF op \in {OP_BIN, OP_UN} THEN 1
    ELSE IF op \in {OP_JZ, OP_JNZ} THEN 4
    ELSE 0

\* the lines disasm prints for code from offset i on: the offset of the
\* opcode byte, its mnemonic and the operand bytes read.  A read past the end
\* of code is undefined; the line holds the bytes that lie inside code, the
\* number printed for the others is not determined.
RECURSIVE disasmFrom(_, _)
disasmFrom(code, i) ==
    IF i >= Len(code) THEN <<>>
    ELSE <<[at |-> i, mn |-> mn(code[i + 1]),
            operands |-> SubSeq(code, i + 2,
                                IF i + 1 + operandBytes(code[i + 1]) <= Len(code)
                                THEN i + 1 + operandBytes(code[i + 1])
                                ELSE Len(code))]>>
           \o disasmFrom(code, i + 1 + operandBytes(code[i + 1]))

\* disasm
disasm(code) == disasmFrom(code, 0)

\* the files main writes, in the order it writes them, with their contents
OutFiles ==
    <<[name |-> "a.ir.bin", data |-> build.text],
      [name |-> "a.text.hex", data |-> dump_hex(build.text)],
      [name |-> "a.rodata.bin", data |-> build.rodata],
      [name |-> "symbols.json", data |-> build.syms]>>
      \o (IF cmd.wantDisasm
          THEN <<[name |-> "a.dis.txt", data |-> disasm(build.text)]>>
          ELSE <<>>)

\* one write_file call that succeeds
WriteFile ==
    /\ pc = "write"
    /\ Len(files) < Len(OutFiles)
    /\ files' = Append(files, OutFiles[Len(files) + 1])
    /\ UNCHANGED <<lx, cmd, toks, pc, ast, thrown, diags, di, errOut, text, rodata,
                   relocs, labels, sym_func_start, ri, patched, build, exitCode>>

\* one write_file call that throws
WriteFail ==
    /\ pc = "write"
    /\ Len(files) < Len(OutFiles)
    /\ Throw("cannot write: ", OutFiles[Len(files) + 1].name)
    /\ UNCHANGED <<lx, cmd, toks, ast, diags, di, errOut, text, rodata, relocs, labels,
                   sym_func_start, ri, patched, build, files, exitCode>>

\* cerr << "ok: wrote "; return 0;
Finish ==
    /\ pc = "write"
    /\ Len(files) = Len(OutFiles)
    /\ errOut' = Append(errOut, "ok: wrote out")
    /\ exitCode' = 0
    /\ pc' = "done"
    /\ UNCHANGED <<lx, cmd, toks, ast, thrown, diags, di, text, rodata, relocs, labels,
                   sym_func_start, ri, patched, build, files>>

\* catch (const exception& e) { cerr << "fatal: " << e.what(); return 1; }
Catch ==
    /\ pc = "catch"
    /\ errOut' = Append(errOut, "fatal: " \o thrown.kind \o thrown.detail)
    /\ exitCode' = 1
    /\ pc' = "done"
    /\ UNCHANGED <<lx, cmd, toks, ast, thrown, diags, di, text, rodata, relocs, labels,
                   sym_func_start, ri, patched, build, files>>

Next ==
    \/ ReadOk
    \/ ReadFail
    \/ Parse
    \/ Validate
    \/ Report
    \/ ReportDone
    \/ Emit
    \/ LinkStep
    \/ LinkDone
    \/ Optimize
    \/ WriteFile
    \/ WriteFail
    \/ Finish
    \/ Catch

Spec == Init /\ [][Next]_vars

-----------------------------------------------------------------------------
(* The whole of main as a function of the source, for comparing two runs   *)

RECURSIVE linkAll(_, _, _, _, _)
\* the relocation loop of Emitter::build from entry j on
linkAll(txt, labs, syms, rs, j) ==
    IF j > Len(rs) THEN [ok |-> TRUE, text |-> txt]
    ELSE LET r == resolve(txt, labs, syms, rs[j]) IN
         IF r.ok THEN linkAll(r.text, r.labels, syms, rs, j + 1)
         ELSE r

\* what main makes of the Program node p: the stage that threw, or "ok",
\* and the BuildResult after the optimizer
CompileAst(p) ==
    IF \E j \in 1..Len(StarCodeRun(p)) : StarCodeRun(p)[j].kind = "error"
    THEN [status |-> "star-code error", ast |-> p, build |-> NoBuild]
    ELSE LET es == emitItems(NewEmitter, p.xs)
             l  == linkAll(es.text, es.labels, es.sym_func_start, es.relocs, 1)
         IN  IF ~l.ok
             THEN [status |-> "unresolved symbol: ", ast |-> p, build |-> NoBuild]
             ELSE [status |-> "ok", ast |-> p,
                   build |-> [text |-> peephole(l.text), rodata |-> es.rodata,
                              syms |-> es.sym_func_start]]

\* what main makes of the source whose tokens are ts
Compile(ts) ==
    IF ~parse(ts).ok
    THEN [status |-> "parse error", ast |-> NullNode, build |-> NoBuild]
    ELSE CompileAst(parse(ts).n)

-----------------------------------------------------------------------------
(* Properties of the pipeline on sources                                   *)

\* runtime_error messages of read_file and write_file
IOFailure == {"cannot open: ", "cannot write: "}

\* main has returned and no file operation failed
Ended == pc = "done" /\ thrown.kind \notin IOFailure

\* the validator has run on the parsed program
Validated == ast # NullNode /\ pc \notin {"read", "parse", "validate"}

IsEntry(n) == n.k = "Block" /\ n.s1 \in {"@main", "@entry_point"}

\* the statement lists of the entry blocks of program p
EntryBodies(p) == { p.xs[j].xs : j \in { m \in 1..Len(p.xs) : IsEntry(p.xs[m]) } }

\* the diagnostics of kind k located at line L, column C
DiagsAt(k, L, C) ==
    { j \in 1..Len(diags) :
        diags[j].kind = k /\ diags[j].line = L /\ diags[j].col = C }

RECURSIVE Strip(_)
\* node n without its source positions
Strip(n) ==
    [k |-> n.k, s1 |-> n.s1, s2 |-> n.s2, i64 |-> n.i64, du_ns |-> n.du_ns,
     b |-> n.b, xs |-> [j \in 1..Len(n.xs) |-> Strip(n.xs[j])]]

\* the four statements of the dual syntax: shortcode and long-form spelling
\* #init $A0 / initialize capsule $A0, #exit / terminate execution,
\* #load $A0, 255 / assign value 255 to capsule $A0,
\* #call $f, $A0 / invoke function $f with capsule $A0
ShortLong ==
    <<[short |-> Phrases[1], long |-> Phrases[5]],
      [short |-> Phrases[2], long |-> Phrases[6]],
      [short |-> Phrases[3], long |-> Phrases[7]],
      [short |-> Phrases[4], long |-> Phrases[8]]>>

\* C1: for every sequence of init, load, call and exit statements, the run on
\* the shortcode spelling and the run on the long-form spelling end in the
\* same way, with the same AST up to source positions and with the same
\* image, rodata and symbol table.
C1_DualSyntaxEquivalent ==
    \A f \in UNION { [1..m -> 1..Len(ShortLong)] : m \in 1..MaxStmts } :
        LET short == WithPos(Main(Flatten([j \in DOMAIN f |-> ShortLong[f[j]].short])))
            long  == WithPos(Main(Flatten([j \in DOMAIN f |-> ShortLong[f[j]].long])))
        IN  (Ended /\ toks = short) =>
                /\ Compile(long).status = (IF thrown = NoThrow THEN "ok"
                                                               ELSE thrown.kind)
                /\ Strip(Compile(long).ast) = Strip(ast)
                /\ Compile(long).build = build

\* C2: a program the parser accepts has an entry block as its first
\* top-level item and no second entry block; sources with no entry block,
\* with a declaration before it or with two entry blocks are rejected.
C2_ExactlyOneEntryFirst ==
    ast # NullNode =>
        /\ Len(ast.xs) >= 1
        /\ IsEntry(ast.xs[1])
        /\ \A j \in 2..Len(ast.xs) : ~IsEntry(ast.xs[j])

\* the stages before the output files have all succeeded
StagesPassed ==
    /\ parse(toks).ok /\ ast = parse(toks).n
    /\ diags = StarCodeRun(ast)
    /\ \A j \in 1..Len(diags) : diags[j].kind # "error"
    /\ ri > Len(relocs)
    /\ \A j \in 1..Len(relocs) : relocs[j].sym \in DOMAIN labels
    /\ pc \in {"write", "catch", "done"}

\* C3: output files are written only after lexing, parsing, validation,
\* emission and relocation resolution have all succeeded; a run in which one
\* of them fails ends with exit status 1 and without any output file; a run
\* in which nothing fails writes all its files and returns 0.
C3_OutputOnlyAfterAllStages ==
    /\ files # <<>> => StagesPassed
    /\ (pc = "done" /\ thrown.kind \in {"parse error", "star-code error",
                                        "unresolved symbol: "})
          => (files = <<>> /\ exitCode = 1)
    /\ (pc = "done" /\ thrown = NoThrow)
          => (StagesPassed /\ files = OutFiles /\ exitCode = 0)

\* C3 witness: a run that emitted code, failed to resolve a symbol and ended
\* with status 1 and without output files
C3_Witness ==
    /\ pc = "done" /\ thrown.kind = "unresolved symbol: "
    /\ text # <<>> /\ files = <<>> /\ exitCode = 1

\* the labels defined directly in the statement list xs
LabelsIn(xs) == { xs[j].s1 : j \in { m \in 1..Len(xs) : xs[m].k = "Label" } }

RECURSIVE UndefGotos(_, _)
\* the Goto nodes under the statement list xs whose label is defined neither
\* in xs nor in vis, the labels of the scopes that enclose xs
UndefGotos(xs, vis) ==
    UNION { CASE xs[j].k = "Goto" ->
                   IF xs[j].s1 \in vis \cup LabelsIn(xs) THEN {} ELSE {xs[j]}
              [] xs[j].k \in {"If", "Loop"} ->
                   UNION { UndefGotos(xs[j].xs[b].xs, vis \cup LabelsIn(xs)) :
                             b \in 2..Len(xs[j].xs) }
              [] xs[j].k = "Block" ->
                   UndefGotos(xs[j].xs, vis \cup LabelsIn(xs))
              [] OTHER -> {}
            : j \in 1..Len(xs) }

\* C4: for every goto whose label is defined in no enclosing scope the
\* validator reports exactly one error, at the position of the goto, and the
\* pipeline stops before emission: no code is emitted and no file written.
C4_GotoUndefinedLabel ==
    Validated =>
        \A body \in EntryBodies(ast) : \A g \in UndefGotos(body, {}) :
            /\ Cardinality(DiagsAt("error", g.line, g.col)) = 1
            /\ text = <<>>
            /\ files = <<>>

\* the indices in the statement list xs of a #lease of a capsule that an
\* earlier #lease holds, with no #release of it in between
DoubleLeases(xs) ==
    { j \in 1..Len(xs) :
        /\ xs[j].k = "Lease"
        /\ \E h \in 1..(j - 1) :
              /\ xs[h].k = "Lease" /\ xs[h].s1 = xs[j].s1
              /\ \A m \in (h + 1)..(j - 1) :
                    ~(xs[m].k = "Release" /\ xs[m].s1 = xs[j].s1) }

\* C5: a second #lease of a capsule that is still leased makes the validator
\* report exactly one error, at that #lease, and no output image is written.
C5_DoubleLeaseIsError ==
    Validated =>
        \A body \in EntryBodies(ast) : \A j \in DoubleLeases(body) :
            /\ Cardinality(DiagsAt("error", body[j].line, body[j].col)) = 1
            /\ files = <<>>

\* C6: a program whose only statement is an #if with a non-bool literal
\* condition (integer, string or duration) gets exactly one warning, for
\* that condition, is not aborted, and compiles to an image.
C6_NonBoolConditionWarns ==
    \A lit \in 20..22 :
        (Ended /\ toks = WithPos(Main(Phrases[lit]))) =>
            /\ Cardinality({ j \in 1..Len(diags) : diags[j].kind = "warning" }) = 1
            /\ exitCode = 0
            /\ files # <<>>

\* C7: a program whose only faulty statement is a #sleep or an #expire with a
\* negative duration literal is accepted by the parser, gets exactly one
\* warning, and compiles to an image.
C7_NegativeDurationWarns ==
    \A neg \in {15, 17} :
        (Ended /\ toks = WithPos(Main(Phrases[neg] \o Phrases[2]))) =>
            /\ ast # NullNode
            /\ Cardinality({ j \in 1..Len(diags) : diags[j].kind = "warning" }) = 1
            /\ exitCode = 0
            /\ files # <<>>

\* C8: when the validator's list holds an error, every warning of the list,
\* also one that comes after the error, is on the diagnostics output by the
\* time the run ends.
C8_WarningsFlushedBeforeAbort ==
    (pc = "done" /\ \E j \in 1..Len(diags) : diags[j].kind = "error") =>
        \A j \in 1..Len(diags) :
            diags[j].kind = "warning" =>
                \E m \in 1..Len(errOut) : errOut[m] = DiagLine(diags[j])

-----------------------------------------------------------------------------
(* The stages after the parser, on Program nodes.  StarCode::run and       *)
(* Emitter::build take any Node tree; Parser::parseExpr never returns one  *)
(* (see parseBin), so the trees with expressions, If and Loop are given to *)
(* these stages directly, as the node builder N() makes them.              *)

ConstI(v)    == [N("ConstI", 1, 0) EXCEPT !.i64 = v]
ConstBool(b) == [N("ConstBool", 1, 0) EXCEPT !.b = b]
Bin(op, l, r) == [N("Bin", 1, 0) EXCEPT !.s1 = op, !.xs = <<l, r>>]
Named(k, name, xs) == [N(k, 1, 0) EXCEPT !.s1 = name, !.xs = xs]
BlockOf(xs)  == [N("Block", 1, 0) EXCEPT !.xs = xs]

\* 32-bit values as Token::ival holds them after strtoull
V3    == U64(3)
V20   == U64(32)                              \* 0x20, the byte of OP_PUSHK
V923  == U64(2339)                            \* 0x0923: bytes OP_BIN, B_ADD
VMax  == <<255, 255, 255, 255, 0, 0, 0, 0>>   \* 0xFFFFFFFF

\* the statements of the entry block of an input tree
AstStmts ==
    <<N("Exit", 1, 0),
      Named("Call", "$f", <<ConstI(V3)>>),
      Named("Spawn", "$f", <<>>),
      Named("Spawn", "$g", <<>>),
      Named("Goto", "L", <<>>),
      Named("Goto", "M", <<>>),
      Named("If", "", <<ConstBool(TRUE), BlockOf(<<N("Exit", 1, 0)>>)>>),
      Named("If", "", <<ConstI(V3), BlockOf(<<N("Exit", 1, 0)>>),
                        BlockOf(<<N("Yield", 1, 0)>>)>>),
      Named("Loop", "", <<ConstBool(TRUE), BlockOf(<<Named("Goto", "L", <<>>)>>)>>),
      Named("CallExpr", "$f", <<>>),
      ConstI(V20),
      Bin("+", ConstI(V20), ConstI(V923)),
      Bin("-", ConstI(V3), ConstI(V20)),
      Bin("*", ConstI(VMax), ConstI(VMax)),
      Bin("+", ConstI(VMax), ConstI(V3)),
      Bin("/", ConstI(V20), ConstI(Z8)),
      Bin("%", ConstI(V923), ConstI(V20)),
      [N("Sleep", 1, 0) EXCEPT !.du_ns = DurHuge]>>

\* function $f() { :L #exit }
FuncNode ==
    Named("Func", "$f", <<BlockOf(<<Named("Label", "L", <<>>), N("Exit", 1, 0)>>)>>)

\* the Program nodes: function $f, then an entry block of up to n statements
AstPrograms(n) ==
    UNION { { Named("Program", "",
                    <<FuncNode,
                      Named("Block", "@main",
                            [j \in 1..m |-> [AstStmts[f[j]] EXCEPT !.col = j]])>>)
              : f \in [1..m -> 1..Len(AstStmts)] } : m \in 0..n }

\* the statements of the entry blocks of one statement that are inputs
\* besides: the logical operators
IfElse(c, th, el) == Named("If", "", <<c, BlockOf(th), BlockOf(el)>>)
While(c, body)    == Named("Loop", "", <<c, BlockOf(body)>>)

\* the statements of the entry blocks of one statement that are inputs
\* besides: the logical operators, nested if and loop statements
MoreStmts ==
    <<Bin("&&", ConstBool(TRUE), ConstBool(FALSE)),
      Bin("||", ConstBool(TRUE), ConstBool(FALSE)),
      IfElse(ConstBool(TRUE),
             <<IfElse(ConstBool(FALSE), <<N("Exit", 1, 0)>>, <<N("Yield", 1, 0)>>),
               N("Yield", 1, 0)>>,
             <<Named("If", "", <<ConstI(V3), BlockOf(<<N("Exit", 1, 0)>>)>>)>>),
      While(ConstBool(TRUE),
            <<While(ConstBool(FALSE), <<N("Yield", 1, 0)>>), N("Exit", 1, 0)>>),
      While(ConstI(V3),
            <<IfElse(ConstBool(TRUE), <<While(ConstBool(FALSE), <<>>)>>,
                     <<N("Yield", 1, 0)>>)>>)>>

\* the Program nodes: function $f, then an entry block of one of MoreStmts
MorePrograms ==
    { Named("Program", "",
            <<FuncNode,
              Named("Block", "@main", <<[MoreStmts[j] EXCEPT !.col = 1]>>)>>)
      : j \in 1..Len(MoreStmts) }

\* main after Parser::parse has returned Program node p
InitAst ==
    \E p \in AstPrograms(MaxStmts) \cup MorePrograms :
        /\ lx = NoSource
        /\ cmd \in Cmd
        /\ toks = <<>>
        /\ pc = "validate"
        /\ ast = p
        /\ thrown = NoThrow
        /\ diags = <<>>
        /\ di = 1
        /\ errOut = <<>>
        /\ text = <<>>
        /\ rodata = <<>>
        /\ relocs = <<>>
        /\ labels = <<>>
        /\ sym_func_start = <<>>
        /\ ri = 1
        /\ patched = <<>>
        /\ build = NoBuild
        /\ files = <<>>
        /\ exitCode = -1

NextAst ==
    \/ Validate
    \/ Report
    \/ ReportDone
    \/ Emit
    \/ LinkStep
    \/ LinkDone
    \/ Optimize
    \/ WriteFile
    \/ WriteFail
    \/ Finish
    \/ Catch

SpecAst == InitAst /\ [][NextAst]_vars

-----------------------------------------------------------------------------
(* The compiler from the characters of the source on: Parser(src) reads    *)
(* the tokens one by one with Lexer::next and stops at the first Error     *)
(* token or at End.  toks holds the tokens read, the last one included.    *)

MaxSrcLen == 3

\* the characters the short sources are made of
Alphabet == {"a", "1", "$", "/", "*", ":", "@", "#", "\"", " "}

\* the sequences over S of length n at most
SeqsUpTo(S, n) == UNION {[1..k -> S] : k \in 0..n}

\* let $n : T ;
LetDecl ==
    <<"l", "e", "t", " ", "$", "n", " ", ":", " ", "T", " ", ";">>

\* function $f(p: T) : R { }
FuncDecl ==
    <<"f", "u", "n", "c", "t", "i", "o", "n", " ", "$", "f", "(", "p", ":", " ", "T", ")", " ", ":", " ", "R", " ", "{", " ", "}">>

\* sources of whole declarations
Texts ==
    {LetDecl, FuncDecl,
     <<"l", "e", "t", " ", "$", "n", ":", " ", "T", ";">>,
     <<"@", "m", "a", "i", "n", " ", "{", " ", "#", "e", "x", "i", "t", " ", "}">>,
     <<"f", "u", "n", "c", "t", "i", "o", "n", " ", "$", "f", "(", ")", " ", "{", " ", "}">>,
     <<"@", "m", "a", "i", "n", " ", "{", " ", "#", "s", "l", "e", "e", "p", " ", "1", "0", "m", "s", " ", "}">>,
     <<"@", "m", "a", "i", "n", " ", "{", " ", "/", "*", " ", "a", " ", "*", "/", " ", "#", "e", "x", "i", "t", " ", "}", " ", "/", "/", " ", "b">>}

Sources == SeqsUpTo(Alphabet, MaxSrcLen) \cup Texts

InitLex ==
    \E s \in Sources :
        /\ lx = Lexer(s)
        /\ cmd \in Cmd
        /\ toks = <<>>
        /\ pc = "lex"
        /\ ast = NullNode
        /\ thrown = NoThrow
        /\ diags = <<>>
        /\ di = 1
        /\ errOut = <<>>
        /\ text = <<>>
        /\ rodata = <<>>
        /\ relocs = <<>>
        /\ labels = <<>>
        /\ sym_func_start = <<>>
        /\ ri = 1
        /\ patched = <<>>
        /\ build = NoBuild
        /\ files = <<>>
        /\ exitCode = -1

\* the Lexer has returned End or Error
LexEnded == toks # <<>> /\ toks[Len(toks)].kind \in {"End", "Error"}

\* t = lx.next()
LexNext ==
    /\ pc = "lex"
    /\ ~LexEnded
    /\ toks' = Append(toks, next(lx).tok)
    /\ lx' = next(lx).lx
    /\ UNCHANGED <<cmd, pc, ast, thrown, diags, di, errOut, text, rodata, relocs,
                   labels, sym_func_start, ri, patched, build, files, exitCode>>

\* no token is read after End or after an Error token
LexDone ==
    /\ pc = "lex"
    /\ LexEnded
    /\ pc' = "parse"
    /\ UNCHANGED <<lx, cmd, toks, ast, thrown, diags, di, errOut, text, rodata,
                   relocs, labels, sym_func_start, ri, patched, build, files,
                   exitCode>>

NextLex ==
    \/ LexNext
    \/ LexDone
    \/ Parse

SpecLex == InitLex /\ [][NextLex]_vars


-----------------------------------------------------------------------------
(* Relocations and the peephole pass, on the runs of SpecAst                *)

RECURSIVE CountKinds(_, _), CountKindsAll(_, _)
\* the number of nodes of the tree n whose kind is in ks
CountKinds(n, ks) == (IF n.k \in ks THEN 1 ELSE 0) + CountKindsAll(n.xs, ks)
CountKindsAll(xs, ks) ==
    IF xs = <<>> THEN 0 ELSE CountKinds(Head(xs), ks) + CountKindsAll(Tail(xs), ks)

\* em.build has run its first loop / its relocation loop to the end
Emitted == pc \in {"link", "optimize", "write"} \/ (pc = "done" /\ build # NoBuild)
Linked  == Emitted /\ (pc = "link" => thrown.kind = "") /\ ri > Len(relocs)

\* the fixup positions of the relocation entries 1..m
FixupsUpTo(m) == [j \in 1..m |-> relocs[j].pos]

EntryAt ==
    CHOOSE m \in 1..Len(ast.xs) :
        IsEntry(ast.xs[m]) /\ \A h \in 1..(m - 1) : ~IsEntry(ast.xs[h])
EntryStmts == ast.xs[EntryAt].xs
SiteOf(j) ==
    Len(emitStmts(emitItems(NewEmitter, SubSeq(ast.xs, 1, EntryAt - 1)),
                  SubSeq(EntryStmts, 1, j - 1)).text)

\* statement j is `a op b` with literals a, b and op one of + - *, so that
\* its code is PUSHK a; PUSHK b; BIN op
FoldSite(j) ==
    /\ EntryStmts[j].k = "Bin"
    /\ EntryStmts[j].s1 \in {"+", "-", "*"}
    /\ EntryStmts[j].xs[1].k = "ConstI"
    /\ EntryStmts[j].xs[2].k = "ConstI"
    /\ SubSeq(text, SiteOf(j) + 1, SiteOf(j) + 12) =
           emitExpr(NewEmitter, EntryStmts[j]).text

\* PUSHK ((a op b) mod 2^32) for the statement j: the low four bytes of the
\* sum, difference or product
FoldedSite(j) ==
    <<OP_PUSHK>> \o Lo32(foldValue(Lo32(EntryStmts[j].xs[1].i64),
                                   Lo32(EntryStmts[j].xs[2].i64),
                                   op_of(EntryStmts[j].s1)))

\* C10: after the peephole pass every site PUSHK a; PUSHK b; BIN op with op
\* ADD, SUB or MUL holds the single instruction PUSHK ((a op b) mod 2^32);
\* the site lies at its offset before the pass or, where earlier folds have
\* shortened the image, before it.
C10_FoldsEverySite ==
    (pc = "write" /\ build # NoBuild) =>
        \A j \in 1..Len(EntryStmts) :
            FoldSite(j) =>
                \E q \in 0..SiteOf(j) :
                    q + 5 <= Len(build.text) /\
                    SubSeq(build.text, q + 1, q + 5) = FoldedSite(j)

\* statement j is `a / 0` or `a % 0` with a literal a, so that its code is
\* PUSHK a; PUSHK 0; BIN DIV or BIN MOD
ZeroDivSite(j) ==
    /\ EntryStmts[j].k = "Bin"
    /\ EntryStmts[j].s1 \in {"/", "%"}
    /\ EntryStmts[j].xs[1].k = "ConstI"
    /\ EntryStmts[j].xs[2].k = "ConstI"
    /\ Lo32(EntryStmts[j].xs[2].i64) = Z4
    /\ SubSeq(text, SiteOf(j) + 1, SiteOf(j) + 12) =
           emitExpr(NewEmitter, EntryStmts[j]).text

\* C11: after the peephole pass every site PUSHK a; PUSHK 0; BIN op with op
\* DIV or MOD is in the image with its twelve bytes unchanged, at its offset
\* before the pass or, where earlier folds have shortened the image, before
\* it.
C11_ZeroDivisorLeftIntact ==
    (pc = "write" /\ build # NoBuild) =>
        \A j \in 1..Len(EntryStmts) :
            ZeroDivSite(j) =>
                \E q \in 0..SiteOf(j) :
                    q + 12 <= Len(build.text) /\
                    SubSeq(build.text, q + 1, q + 12) =
                        SubSeq(text, SiteOf(j) + 1, SiteOf(j) + 12)

-----------------------------------------------------------------------------
(* Addresses across the peephole pass                                      *)

RECURSIVE NewOffset(_, _, _, _)
\* the offset in the output of Optimizer::peephole at which the byte at
\* offset p of code is written, when the loop stands at i = j - 1 with n
\* bytes written; -1 if p lies inside a window that is folded
NewOffset(code, j, n, p) ==
    LET h == nextWindow(code, j) IN
    IF p + 1 <= h THEN n + (p + 1 - j)
    ELSE IF p + 1 < h + 12 THEN -1
    ELSE NewOffset(code, h + 12, n + (h - j) + 5, p)

\* the address a in the image before the pass, as the image after the pass
\* would have to hold it
Moved(a) == NewOffset(text, 1, 0, a)

\* C12: after the peephole pass every function symbol is the offset, in the
\* final image, of the function's first opcode, and the operand of every
\* CALL, SPAWN and JMP that the relocation loop resolved is the offset, in
\* the final image, of the instruction it designated before the pass.
C12_AddressesPreserved ==
    (pc = "write" /\ build # NoBuild) =>
        /\ \A f \in DOMAIN sym_func_start :
              build.syms[f] = Moved(sym_func_start[f])
        /\ \A j \in 1..Len(relocs) :
              /\ Moved(relocs[j].pos) >= 0
              /\ Moved(relocs[j].pos) + 4 <= Len(build.text)
              /\ Moved(ToNat(SubSeq(text, relocs[j].pos + 1,
                                    relocs[j].pos + 4))) >= 0
              /\ SubSeq(build.text, Moved(relocs[j].pos) + 1,
                        Moved(relocs[j].pos) + 4)
                    = u32le(Moved(ToNat(SubSeq(text, relocs[j].pos + 1,
                                               relocs[j].pos + 4))))

-----------------------------------------------------------------------------
(* Literals in rodata                                                      *)

\* the program has an entry block and its code has been emitted and linked
EntryEmitted ==
    /\ pc = "write" /\ build # NoBuild
    /\ \E m \in 1..Len(ast.xs) : IsEntry(ast.xs[m])

\* the message operand of the ERROR instruction of entry statement j: the
\* last four of its thirteen bytes
MsgOperand(j) == SubSeq(text, SiteOf(j) + 10, SiteOf(j) + 13)

\* the offsets in rodata at which the NUL-terminated string str is stored
StoredAt(str) ==
    { q \in 0..Len(rodata) :
        /\ q + Len(StrBytes(str)) + 1 <= Len(rodata)
        /\ SubSeq(rodata, q + 1, q + Len(StrBytes(str)) + 1)
              = StrBytes(str) \o <<0>> }

\* C13: two #error statements with the same message literal get the same
\* message operand, and the message is stored once in rodata.
C13_InterningIdempotent ==
    EntryEmitted =>
        \A i, j \in 1..Len(EntryStmts) :
            (/\ EntryStmts[i].k = "Error" /\ EntryStmts[j].k = "Error"
             /\ EntryStmts[i].s2 = EntryStmts[j].s2) =>
                /\ MsgOperand(i) = MsgOperand(j)
                /\ Cardinality(StoredAt(EntryStmts[i].s2)) = 1

-----------------------------------------------------------------------------
(* Capsule operands                                                        *)

\* the capsule operand of entry statement j, an #init, #lease, #sublease or
\* #release: the four bytes after its opcode
CapOperand(j) == SubSeq(text, SiteOf(j) + 2, SiteOf(j) + 5)

\* the byte that the hex digits after `$` spell, for the capsule names of
\* the input programs that are one or two hex digits
HexByteOf(name) == CASE name = "$A0" -> 160 [] name = "$B1" -> 177

\* C14: the capsule operand of every #init, #lease, #sublease and #release
\* is an 8-bit id, and for a name that is `$` and one or two hex digits it is
\* the byte those digits spell ($A0 gives 0xA0).
C14_CapsuleIdIsHexByte ==
    EntryEmitted =>
        \A j \in 1..Len(EntryStmts) :
            EntryStmts[j].k \in {"Init", "Lease", "Sublease", "Release"} =>
                /\ SubSeq(CapOperand(j), 2, 4) = <<0, 0, 0>>
                /\ EntryStmts[j].s1 \in {"$A0", "$B1"} =>
                       CapOperand(j)[1] = HexByteOf(EntryStmts[j].s1)

-----------------------------------------------------------------------------
(* Duration operands                                                       *)

\* the duration operand of entry statement j: the four bytes after the
\* opcode of a SLEEP, after the opcode and the capsule operand of an EXPIRE
DurOperand(j) ==
    IF EntryStmts[j].k = "Sleep"
    THEN SubSeq(text, SiteOf(j) + 2, SiteOf(j) + 5)
    ELSE SubSeq(text, SiteOf(j) + 6, SiteOf(j) + 9)

\* C15: the duration operand of every EXPIRE and SLEEP stands for the full
\* nanosecond value of the literal: read as an unsigned number it is the
\* du_ns of the statement, also when that value is 2^32 or more.
C15_DurationKeptInFull ==
    EntryEmitted =>
        \A j \in 1..Len(EntryStmts) :
            EntryStmts[j].k \in {"Sleep", "Expire"} =>
                DurOperand(j) \o Z4 = EntryStmts[j].du_ns

-----------------------------------------------------------------------------
(* Function symbols                                                        *)

\* two functions, or a function and a worker, of the program have one name
DuplicateFunc ==
    /\ ast # NullNode
    /\ \E i, j \in 1..Len(ast.xs) :
          /\ i < j
          /\ ast.xs[i].k \in {"Func", "Worker"}
          /\ ast.xs[j].k \in {"Func", "Worker"}
          /\ ast.xs[i].s1 = ast.xs[j].s1

\* C16: a program that defines two functions, or a function and a worker,
\* under one name ends in a fatal link error: em.build returns no image, no
\* file is written and main does not return 0.
C16_DuplicateFuncIsFatal ==
    DuplicateFunc => /\ build = NoBuild
                     /\ files = <<>>
                     /\ exitCode # 0

-----------------------------------------------------------------------------
(* Listing                                                                 *)

\* the offsets at which the listing of code has a line
LineStarts(code) == { disasm(code)[h].at : h \in 1..Len(disasm(code)) }

\* C17: the listing of an image has a line at the first byte of the code of
\* every statement of the entry block: disasm consumes for each instruction
\* the operand bytes the emitter wrote, so no line starts inside an operand.
\* (The image is the one the emitter produced: the peephole pass folded
\* nothing.)
C17_ListingFollowsInstructions ==
    (EntryEmitted /\ build.text = text) =>
        \A j \in 1..Len(EntryStmts) :
            SiteOf(j) < Len(text) => SiteOf(j) \in LineStarts(build.text)

-----------------------------------------------------------------------------
(* Node positions                                                          *)

RECURSIVE Nodes(_), NodesAll(_)
\* the nodes of the tree n
Nodes(n) == {n} \cup NodesAll(n.xs)
NodesAll(xs) == IF xs = <<>> THEN {} ELSE Nodes(Head(xs)) \cup NodesAll(Tail(xs))

\* the kinds of the tokens at which parse, parseBlock and parseStmt begin a
\* construct whose node has kind k
StartKinds(k) ==
    CASE k = "Block" -> {"LBrace"}
      [] k = "Func" -> {"Function"}
      [] k = "Worker" -> {"Worker"}
      [] k = "Label" -> {"Label"}
      [] k = "Goto" -> {"Goto"}
      [] k = "Init" -> {"HashInit", "Initialize"}
      [] k = "Lease" -> {"HashLease"}
      [] k = "Sublease" -> {"HashSublease"}
      [] k = "Release" -> {"HashRelease"}
      [] k = "Exit" -> {"HashExit", "TerminateExecution"}
      [] k = "Render" -> {"HashRender"}
      [] k = "Input" -> {"HashInput"}
      [] k = "Output" -> {"HashOutput"}
      [] k = "Send" -> {"HashSend"}
      [] k = "Recv" -> {"HashRecv"}
      [] k = "Spawn" -> {"HashSpawn"}
      [] k = "Join" -> {"HashJoin"}
      [] k = "Stamp" -> {"HashStamp"}
      [] k = "Expire" -> {"HashExpire"}
      [] k = "Sleep" -> {"HashSleep"}
      [] k = "Yield" -> {"HashYield"}
      [] k = "Error" -> {"HashError"}
      [] k = "Call" -> {"HashCall", "InvokeFunction"}
      [] k = "Load" -> {"HashLoad", "AssignValue"}
      [] OTHER -> {}

\* C18: every node of the tree the parser returns, the Program node apart,
\* carries the line and column of a token that begins its construct: the
\* opening brace for a block, the keyword or shortcode for a statement.
C18_NodeAtFirstToken ==
    ast # NullNode =>
        \A n \in NodesAll(ast.xs) :
            \E i \in 1..Len(toks) :
                /\ toks[i].line = n.line
                /\ toks[i].col = n.col
                /\ toks[i].kind \in StartKinds(n.k)

-----------------------------------------------------------------------------
(* Operator precedence                                                     *)

\* the precedence band of the operator whose lexeme is op
band(op) ==
    CASE op = "||" -> 1
      [] op = "&&" -> 2
      [] op \in {"==", "!="} -> 3
      [] op \in {"<", ">", "<=", ">="} -> 4
      [] op \in {"+", "-"} -> 5
      [] op \in {"*", "/", "%"} -> 6

\* the operands of the Bin node n are grouped by band, left to right within
\* a band
Grouped(n) ==
    /\ n.xs[1].k = "Bin" => band(n.xs[1].s1) >= band(n.s1)
    /\ n.xs[2].k = "Bin" => band(n.xs[2].s1) > band(n.s1)

\* the source is @main { #load $A0, 1 a 2 b 3 } and ps.parse() has returned or
\* thrown
ParsedLoadExpr ==
    /\ pc = "validate" \/ (pc = "catch" /\ thrown.kind = "parse error")
    /\ \E a, b \in OpToks : toks = WithPos(Main(LoadExpr(a, b)))

\* C19: the parser builds a tree for the un-parenthesised expression
\* 1 a 2 b 3: one Bin node for each operator, no operator of a lower band
\* below one of a higher band, operators of one band grouped left to right.
C19_GroupsByPrecedence ==
    ParsedLoadExpr =>
        /\ ast # NullNode
        /\ CountKinds(ast, {"Bin"}) = 2
        /\ \A n \in Nodes(ast) : n.k = "Bin" => Grouped(n)

-----------------------------------------------------------------------------
(* Folded windows                                                          *)

\* the number of operand bytes emitExpr and emitStmt write after opcode op
emitted(op) ==
    CASE op \in {OP_EXIT, OP_YIELD} -> 0
      [] op \in {OP_UN, OP_BIN} -> 1
      [] op \in {OP_SEND, OP_RECV, OP_STAMP, OP_EXPIRE} -> 8
      [] op = OP_ERROR -> 12
      [] OTHER -> 4

RECURSIVE InstrStarts(_, _)
\* the offsets from i on at which the emitter began an instruction of code
InstrStarts(code, i) ==
    IF i >= Len(code) THEN {}
    ELSE {i} \cup InstrStarts(code, i + 1 + emitted(code[i + 1]))

RECURSIVE Folds(_, _)
\* the offsets of the windows the loop of Optimizer::peephole folds from
\* i = j - 1 on
Folds(code, j) ==
    IF nextWindow(code, j) > Len(code) THEN {}
    ELSE {nextWindow(code, j) - 1} \cup Folds(code, nextWindow(code, j) + 12)

\* C20: every window the peephole pass folds starts at the first byte of an
\* instruction the emitter wrote and holds no fixup position of a relocation
\* entry.
C20_FoldsOnlyAtInstructions ==
    pc = "write" =>
        \A h \in Folds(text, 1) :
            /\ h \in InstrStarts(text, 0)
            /\ \A j \in 1..Len(relocs) : relocs[j].pos \notin h..(h + 11)

-----------------------------------------------------------------------------
(* Logical operators                                                       *)

\* the offset at which the code of the left operand of entry statement j ends
AfterLhs(j) == SiteOf(j) + Len(emitExpr(NewEmitter, EntryStmts[j].xs[1]).text)

\* C21: in the code of `a && b` and of `a || b` the code of a is followed by
\* a JZ (for &&) or a JNZ (for ||) whose operand is the offset of the
\* instruction after the operator, so that the code of b can be skipped.
C21_ShortCircuitJump ==
    EntryEmitted =>
        \A j \in 1..Len(EntryStmts) :
            (EntryStmts[j].k = "Bin" /\ EntryStmts[j].s1 \in {"&&", "||"}) =>
                /\ AfterLhs(j) + 5 <= Len(text)
                /\ text[AfterLhs(j) + 1] =
                       (IF EntryStmts[j].s1 = "&&" THEN OP_JZ ELSE OP_JNZ)
                /\ ToNat(SubSeq(text, AfterLhs(j) + 2, AfterLhs(j) + 5))
                       = SiteOf(j + 1)

-----------------------------------------------------------------------------
(* Jump operands of if and loop                                            *)

\* the number of bytes the emitter writes for statement or expression n
CodeLen(n) == Len(emitStmt(NewEmitter, n).text)

\* the four operand bytes of the instruction whose opcode is at offset q
OperandAt(q) == SubSeq(text, q + 2, q + 5)

\* the offsets, for the If or Loop node n whose code begins at offset at, of
\* its JZ, of the first byte of its then-body or body, and of the first byte
\* after that body
JzAt(n, at)    == at + CodeLen(n.xs[1])
BodyAt(n, at)  == JzAt(n, at) + 5
BodyEnd(n, at) == BodyAt(n, at) + CodeLen(n.xs[2])

RECURSIVE IfsPatched(_, _), IfsPatchedAll(_, _)
\* every If in statement n, whose code begins at offset at, has the operands
\* of C22 in text
IfsPatched(n, at) ==
    CASE n.k = "If" ->
           /\ text[JzAt(n, at) + 1] = OP_JZ
           /\ IfsPatchedAll(n.xs[2].xs, BodyAt(n, at))
           /\ IF Len(n.xs) > 2
              THEN /\ OperandAt(JzAt(n, at)) = u32le(BodyEnd(n, at) + 5)
                   /\ text[BodyEnd(n, at) + 1] = OP_JMP
                   /\ OperandAt(BodyEnd(n, at)) =
                          u32le(BodyEnd(n, at) + 5 + CodeLen(n.xs[3]))
                   /\ IfsPatchedAll(n.xs[3].xs, BodyEnd(n, at) + 5)
              ELSE OperandAt(JzAt(n, at)) = u32le(BodyEnd(n, at))
      [] n.k = "Loop" -> IfsPatchedAll(n.xs[2].xs, BodyAt(n, at))
      [] OTHER -> TRUE
IfsPatchedAll(xs, at) ==
    \/ xs = <<>>
    \/ /\ IfsPatched(Head(xs), at)
       /\ IfsPatchedAll(Tail(xs), at + CodeLen(Head(xs)))

\* C22: for every if statement of the entry block, nested ones included,
\* the JZ operand in the emitter's text is the offset of the first byte of
\* the else-body when there is an else and of the first byte after the
\* then-body otherwise; with an else, a JMP follows the then-body and its
\* operand is the offset of the first byte after the else-body.
C22_IfJumpOperands ==
    EntryEmitted => IfsPatchedAll(EntryStmts, SiteOf(1))

\* an if with an else whose then-body begins with an if with an else has
\* been emitted, and the outer JZ operand is the offset of the outer else
C22_Witness ==
    /\ EntryEmitted
    /\ \E j \in 1..Len(EntryStmts) :
          /\ EntryStmts[j].k = "If"
          /\ Len(EntryStmts[j].xs) > 2
          /\ EntryStmts[j].xs[2].xs # <<>>
          /\ EntryStmts[j].xs[2].xs[1].k = "If"
          /\ Len(EntryStmts[j].xs[2].xs[1].xs) > 2
          /\ OperandAt(JzAt(EntryStmts[j], SiteOf(j)))
                = u32le(BodyEnd(EntryStmts[j], SiteOf(j)) + 5)

RECURSIVE LoopsPatched(_, _), LoopsPatchedAll(_, _)
\* every Loop in statement n, whose code begins at offset at, has the
\* operands of C23 in text
LoopsPatched(n, at) ==
    CASE n.k = "Loop" ->
           /\ text[JzAt(n, at) + 1] = OP_JZ
           /\ text[BodyEnd(n, at) + 1] = OP_JMP
           /\ OperandAt(BodyEnd(n, at)) = u32le(at)
           /\ OperandAt(JzAt(n, at)) = u32le(BodyEnd(n, at) + 5)
           /\ LoopsPatchedAll(n.xs[2].xs, BodyAt(n, at))
      [] n.k = "If" ->
           /\ LoopsPatchedAll(n.xs[2].xs, BodyAt(n, at))
           /\ Len(n.xs) > 2 => LoopsPatchedAll(n.xs[3].xs, BodyEnd(n, at) + 5)
      [] OTHER -> TRUE
LoopsPatchedAll(xs, at) ==
    \/ xs = <<>>
    \/ /\ LoopsPatched(Head(xs), at)
       /\ LoopsPatchedAll(Tail(xs), at + CodeLen(Head(xs)))

\* C23: for every loop statement of the entry block, nested ones included,
\* the JMP after the body has as operand the offset at which the code of
\* that loop's condition begins, and the JZ after the condition has as
\* operand the offset of the first byte after that JMP.
C23_LoopJumpOperands ==
    EntryEmitted => LoopsPatchedAll(EntryStmts, SiteOf(1))

\* a loop whose body begins with a loop has been emitted, and the JMP of the
\* inner loop goes back to the inner condition, behind the outer JZ
C23_Witness ==
    /\ EntryEmitted
    /\ \E j \in 1..Len(EntryStmts) :
          /\ EntryStmts[j].k = "Loop"
          /\ EntryStmts[j].xs[2].xs # <<>>
          /\ EntryStmts[j].xs[2].xs[1].k = "Loop"
          /\ OperandAt(BodyEnd(EntryStmts[j].xs[2].xs[1],
                               BodyAt(EntryStmts[j], SiteOf(j))))
                = u32le(BodyAt(EntryStmts[j], SiteOf(j)))

-----------------------------------------------------------------------------
(* break and continue                                                      *)

\* the source holds a #break or a #continue (in the input programs: in the
\* entry block, outside any loop), and main has returned
BreakOutsideLoop ==
    /\ Ended
    /\ \E i \in 1..Len(toks) : toks[i].lex \in {"#break", "#continue"}

\* C24: a #break or #continue outside any loop is a fatal error of the
\* emitter: the parser and the validator accept the program, em.build
\* throws, and no file is written.
C24_BreakOutsideLoopIsEmitterError ==
    BreakOutsideLoop =>
        /\ ast # NullNode
        /\ thrown.kind \notin {"", "parse error", "star-code error"}
        /\ files = <<>>

-----------------------------------------------------------------------------
(* Labels                                                                  *)

\* C25: a goto of the entry block whose label is defined in the entry block
\* is linked to that definition: the operand of its JMP is the offset at
\* which the Label statement of the entry block stands, whatever labels
\* the functions of the program define.
C25_GotoResolvesInOwnBody ==
    EntryEmitted =>
        \A i, j \in 1..Len(EntryStmts) :
            (/\ EntryStmts[i].k = "Label"
             /\ EntryStmts[j].k = "Goto"
             /\ EntryStmts[i].s1 = EntryStmts[j].s1) =>
                SubSeq(text, SiteOf(j) + 2, SiteOf(j) + 5) = u32le(SiteOf(i))

-----------------------------------------------------------------------------
(* Lexing                                                                  *)

\* the source opens a block comment that is never closed
UnterminatedComment(s) ==
    /\ Len(s) >= 2
    /\ s[1] = "/"
    /\ s[2] = "*"
    /\ \A j \in 3..Len(s) - 1 : ~(s[j] = "*" /\ s[j + 1] = "/")

\* the source opens a string literal that is never closed
UnterminatedString(s) ==
    /\ Len(s) >= 1
    /\ s[1] = "\""
    /\ \A j \in 2..Len(s) : s[j] # "\""

\* C26: when the source opens, at its first character, a string literal or
\* a block comment that is never closed, the last token the Lexer returns is
\* an Error token at that position, line 1 column 1, and not End.
C26_UnterminatedIsLexError ==
    (/\ pc = "parse"
     /\ UnterminatedComment(lx.src) \/ UnterminatedString(lx.src)) =>
        /\ toks[Len(toks)].kind = "Error"
        /\ toks[Len(toks)].line = 1
        /\ toks[Len(toks)].col = 1

\* the characters of token t in the source (the sources have one line)
LexemeOf(t) == SubSeq(lx.src, t.col, t.col + Len(t.lex) - 1)

\* [A-Za-z_][A-Za-z0-9_]*
IsName(cs) ==
    /\ cs # <<>>
    /\ cs[1] \in Letters \cup {"_"}
    /\ \A j \in 2..Len(cs) : cs[j] \in Letters \cup Digits \cup {"_"}

\* C27: the lexeme of every Ident token is a name, [A-Za-z_][A-Za-z0-9_]*,
\* or a "$" followed by a name; it holds no '/', ':', '@', '#' and no
\* inner '$'.
C27_IdentifierLexemes ==
    \A j \in 1..Len(toks) :
        toks[j].kind = "Ident" =>
            \/ IsName(LexemeOf(toks[j]))
            \/ /\ LexemeOf(toks[j])[1] = "$"
               /\ IsName(Tail(LexemeOf(toks[j])))

\* C28: the declarations "let $n : T ;" and "function $f(p: T) : R { }"
\* are accepted: the parser returns a Program whose one item is the Let
\* node with name $n and type T, or the Func node with name $f and return
\* type R.
C28_ColonSeparatesNameAndType ==
    (pc \notin {"lex", "parse"} /\ lx.src \in {LetDecl, FuncDecl}) =>
        /\ thrown = NoThrow
        /\ ast.k = "Program"
        /\ Len(ast.xs) = 1
        /\ ast.xs[1].k = (IF lx.src = LetDecl THEN "Let" ELSE "Func")
        /\ ast.xs[1].s1 = (IF lx.src = LetDecl THEN "$n" ELSE "$f")
        /\ ast.xs[1].s2 = (IF lx.src = LetDecl THEN "T" ELSE "R")

-----------------------------------------------------------------------------
(* Expressions                                                             *)

\* the indices of toks at which parseLoad calls parseExpr
LoadOperands ==
    { i \in 4..Len(toks) : /\ toks[i - 3].kind = "HashLoad"
                           /\ toks[i - 2].kind = "Ident"
                           /\ toks[i - 1].kind = "Comma" }

\* C29: parseExpr returns normally on a well-formed expression.  Where the
\* value of a #load is one number and the token after it is no binary
\* operator (a '}', the first token of the next statement, or End),
\* parseExpr returns the ConstI node of the number and leaves Parser::t at
\* that token.
C29_ParseExprReturns ==
    pc \notin {"read", "parse"} =>
        \A i \in LoadOperands :
            (/\ toks[i].kind = "Number"
             /\ prec(toks, i + 1) = 0
             /\ ~Is(toks, i + 1, "Error")) =>
                /\ parseExpr(toks, i).ok
                /\ parseExpr(toks, i).i = i + 1
                /\ parseExpr(toks, i).n.k = "ConstI"

-----------------------------------------------------------------------------
(* Entry point                                                             *)

\* C30: the image starts with the entry block: when the first statement of
\* the entry block has code, that code stands at offset 0, wherever the
\* functions and workers of the source are declared.
C30_ImageStartsWithEntry ==
    (/\ EntryEmitted
     /\ EntryStmts # <<>>
     /\ CodeLen(EntryStmts[1]) > 0) =>
        SiteOf(1) = 0

=============================================================================
